---- MODULE Spec2Model ----
(***************************************************************************)
(* go-smi-api: the two background samplers (GPUMonitor, OllamaMonitor),    *)
(* their single-slot snapshot caches and the REST handlers that read them. *)
(*                                                                         *)
(* The two monitors are separate objects that share no state, and their    *)
(* Start / Stop / Latest / poll scaffolding is the same code twice.  A     *)
(* behaviour of this model follows ONE monitor (the variable sampler says  *)
(* which one); the goroutines are the caller of Start ("start"), the       *)
(* background loop ("loop") and the HTTP handler goroutines (Readers).     *)
(***************************************************************************)
EXTENDS Integers, Sequences, FiniteSets, TLC

\* ------------------------------------------------------------------ bounds

\* The ticker stops delivering ticks when the clock reaches this.
MaxClock == 3

\* The most lines an nvidia-smi output has when every combination of lines
\* is tried: of the device query, and of the process query.
MaxDevRows == 2
MaxProcRows == 2

\* --------------------------------------------------------- program constants

\* queryGPUs: a device row needs this many fields.
GPUFieldCount == 16
\* queryProcesses: a process row needs this many fields.
ProcFieldCount == 4
\* The REST handlers' status codes.
StatusOK == 200
StatusServiceUnavailable == 503

\* -------------------------------------------------------------------- state

VARIABLES
    sampler,    \* "gpu" or "ollama": the monitor this behaviour follows
    faulty,     \* the daemon endpoint that is unreliable in this behaviour
    clock,      \* time.Now(), counted in ticker periods since Start()
    tickC,      \* ticker.C holds a tick (a channel of capacity 1)
    stopCh,     \* stopCh is closed
    muW,        \* mu, writer side: [st: "free" | "pending" | "held", by: thread]
    muR,        \* mu, reader side: number of read locks held
    latest,     \* m.latest: a heap address, 0 for nil
    heap,       \* the objects the goroutines share: address -> cell
    pc,         \* where each polling goroutine is
    loc,        \* the locals of poll / fetch of each polling goroutine
    rpc,        \* where each HTTP handler goroutine is
    rloc,       \* the pointer a handler got from Latest()
    resp,       \* the response a handler wrote
    showCache,  \* OllamaMonitor.showCache: model name -> decoded /api/show response
    wire,       \* the model name of the /api/show request in flight, "" for none
    kvEnv,      \* the environment variable OLLAMA_KV_CACHE_TYPE
    world,      \* what nvidia-smi can print, what the daemon holds, and the build
    lastDone,   \* history: what the latest completed successful poll stored
    lastPoll    \* history: how the latest finished poll ended

vars == <<sampler, faulty, clock, tickC, stopCh, muW, muR, latest, heap, pc, loc,
          rpc, rloc, resp, showCache, wire, kvEnv, world, lastDone, lastPoll>>

\* ------------------------------------------------------------------ strings

\* unicode.IsSpace: the Latin-1 spaces '\t' '\n' '\v' '\f' '\r' ' ' U+0085
\* U+00A0, and U+1680 of the Unicode White_Space property.  Its other
\* members (U+2000..U+200A, U+2028, U+2029, U+202F, U+205F, U+3000) are
\* characters no string of this module can hold.
IsSpace(c) ==
    c \in {"\t", "\n", "", "\f", "\r", " ", "", " ", " "}

RECURSIVE TrimLeft(_)
TrimLeft(s) ==
    IF Len(s) > 0 /\ IsSpace(SubSeq(s, 1, 1)) THEN TrimLeft(SubSeq(s, 2, Len(s))) ELSE s

RECURSIVE TrimRight(_)
TrimRight(s) ==
    IF Len(s) > 0 /\ IsSpace(SubSeq(s, Len(s), Len(s)))
    THEN TrimRight(SubSeq(s, 1, Len(s) - 1))
    ELSE s

\* strings.TrimSpace
TrimSpace(s) == TrimRight(TrimLeft(s))

\* strings.Index: the 1-based position of the first sep in s, 0 when there is none.
RECURSIVE IndexFrom(_, _, _)
IndexFrom(s, sep, i) ==
    IF i + Len(sep) - 1 > Len(s) THEN 0
    ELSE IF SubSeq(s, i, i + Len(sep) - 1) = sep THEN i
    ELSE IndexFrom(s, sep, i + 1)

Index(s, sep) == IndexFrom(s, sep, 1)

\* strings.Split with a non-empty separator: always at least one element.
RECURSIVE Split(_, _)
Split(s, sep) ==
    LET i == Index(s, sep) IN
    IF i = 0 THEN <<s>>
    ELSE <<SubSeq(s, 1, i - 1)>> \o Split(SubSeq(s, i + Len(sep), Len(s)), sep)

\* ------------------------------------------------------------------ numbers

IsDigit(c) == c \in {"0", "1", "2", "3", "4", "5", "6", "7", "8", "9"}

\* The value of a decimal or (lower-case) hexadecimal digit.
DigitVal(c) == Index("0123456789abcdef", c) - 1

RECURSIVE AllDigits(_)
AllDigits(s) ==
    IF Len(s) = 0 THEN TRUE
    ELSE IsDigit(SubSeq(s, 1, 1)) /\ AllDigits(SubSeq(s, 2, Len(s)))

\* The number a string of digits denotes in the given base, after acc.
RECURSIVE DigitsVal(_, _, _)
DigitsVal(s, base, acc) ==
    IF Len(s) = 0 THEN acc
    ELSE DigitsVal(SubSeq(s, 2, Len(s)), base, acc * base + DigitVal(SubSeq(s, 1, 1)))

\* The decimal digits of a natural number; no digits for 0.
RECURSIVE DigitsOf(_)
DigitsOf(n) ==
    IF n = 0 THEN "" ELSE DigitsOf(n \div 10) \o SubSeq("0123456789", (n % 10) + 1, (n % 10) + 1)

RECURSIVE StripLeadingZeros(_)
StripLeadingZeros(s) ==
    IF Len(s) > 0 /\ SubSeq(s, 1, 1) = "0" THEN StripLeadingZeros(SubSeq(s, 2, Len(s))) ELSE s

RECURSIVE StripTrailingZeros(_)
StripTrailingZeros(s) ==
    IF Len(s) > 0 /\ SubSeq(s, Len(s), Len(s)) = "0"
    THEN StripTrailingZeros(SubSeq(s, 1, Len(s) - 1))
    ELSE s

\* a < b for digit strings without leading zeros, as numbers.
RECURSIVE DigitsLess(_, _)
DigitsLess(a, b) ==
    IF Len(a) # Len(b) THEN Len(a) < Len(b)
    ELSE IF Len(a) = 0 THEN FALSE
    ELSE IF SubSeq(a, 1, 1) # SubSeq(b, 1, 1)
         THEN DigitVal(SubSeq(a, 1, 1)) < DigitVal(SubSeq(b, 1, 1))
    ELSE DigitsLess(SubSeq(a, 2, Len(a)), SubSeq(b, 2, Len(b)))

\* ------------------------------------------------------------- Go integers

\* An int or int64 value is held as its decimal numeral, as strconv.Itoa
\* prints it ("0", "-256", "9223372036854775807"): the values of the program
\* go up to 64 bits.  A magnitude is a string of digits without leading
\* zeros, "" for zero.
GoInt(n) == IF n = 0 THEN "0" ELSE IF n < 0 THEN "-" \o DigitsOf(0 - n) ELSE DigitsOf(n)
IsNeg(a) == SubSeq(a, 1, 1) = "-"
Mag(a) == IF a = "0" THEN "" ELSE IF IsNeg(a) THEN SubSeq(a, 2, Len(a)) ELSE a
Signed(neg, m) == IF m = "" THEN "0" ELSE IF neg THEN "-" \o m ELSE m

MaxInt64 == "9223372036854775807"
MinInt64 == "-9223372036854775808"
\* 2^53, 2^54, 2^63 and 2^64 as magnitudes.
Two53 == "9007199254740992"
Two54 == "18014398509481984"
Two63 == "9223372036854775808"
Two64 == "18446744073709551616"

Digit(n) == SubSeq("0123456789", n + 1, n + 1)
LastDigit(m) == IF m = "" THEN 0 ELSE DigitVal(SubSeq(m, Len(m), Len(m)))
Front(m) == IF m = "" THEN "" ELSE SubSeq(m, 1, Len(m) - 1)

RECURSIVE Zeros(_)
Zeros(n) == IF n <= 0 THEN "" ELSE "0" \o Zeros(n - 1)

\* The magnitude a + b + c, c a carry.
RECURSIVE AddMag(_, _, _)
AddMag(a, b, c) ==
    IF a = "" /\ b = "" THEN (IF c = 0 THEN "" ELSE Digit(c))
    ELSE AddMag(Front(a), Front(b), (LastDigit(a) + LastDigit(b) + c) \div 10)
            \o Digit((LastDigit(a) + LastDigit(b) + c) % 10)

\* The digits of a - b - c for a >= b + c, c a borrow.
RECURSIVE SubDigits(_, _, _)
SubDigits(a, b, c) ==
    IF a = "" THEN ""
    ELSE SubDigits(Front(a), Front(b), IF LastDigit(a) - LastDigit(b) - c < 0 THEN 1 ELSE 0)
            \o Digit((LastDigit(a) - LastDigit(b) - c + 10) % 10)

SubMag(a, b) == StripLeadingZeros(SubDigits(a, b, 0))

\* The digits of a * d + c for a small number d.
RECURSIVE MulDigits(_, _, _)
MulDigits(a, d, c) ==
    IF a = "" THEN DigitsOf(c)
    ELSE MulDigits(Front(a), d, (LastDigit(a) * d + c) \div 10)
            \o Digit((LastDigit(a) * d + c) % 10)

TimesSmall(a, d) == StripLeadingZeros(MulDigits(a, d, 0))

\* The magnitude acc * 10^Len(b) + a * b.
RECURSIVE MulMag(_, _, _)
MulMag(a, b, acc) ==
    IF b = "" THEN acc
    ELSE MulMag(a, SubSeq(b, 2, Len(b)),
                AddMag(IF acc = "" THEN "" ELSE acc \o "0",
                       TimesSmall(a, DigitVal(SubSeq(b, 1, 1))), 0))

\* How often b goes into r (n times so far), and what is left.
RECURSIVE Fit(_, _, _)
Fit(r, b, n) == IF DigitsLess(r, b) THEN [n |-> n, r |-> r] ELSE Fit(SubMag(r, b), b, n + 1)

\* Long division by b # 0: quotient and remainder of r * 10^Len(a) + a, the
\* digits q of the quotient already written.
RECURSIVE DivMod(_, _, _, _)
DivMod(a, b, q, r) ==
    LET Step(f) == DivMod(SubSeq(a, 2, Len(a)), b, q \o Digit(f.n), f.r) IN
    IF a = "" THEN [q |-> StripLeadingZeros(q), r |-> r]
    ELSE Step(Fit(StripLeadingZeros(r \o SubSeq(a, 1, 1)), b, 0))

\* a < b, a + b, -a, a - b, a * b of integers, exactly.
Less(a, b) ==
    IF IsNeg(a) # IsNeg(b) THEN IsNeg(a)
    ELSE IF IsNeg(a) THEN DigitsLess(Mag(b), Mag(a))
    ELSE DigitsLess(Mag(a), Mag(b))

Plus(a, b) ==
    IF IsNeg(a) = IsNeg(b) THEN Signed(IsNeg(a), AddMag(Mag(a), Mag(b), 0))
    ELSE IF DigitsLess(Mag(a), Mag(b)) THEN Signed(IsNeg(b), SubMag(Mag(b), Mag(a)))
    ELSE Signed(IsNeg(a), SubMag(Mag(a), Mag(b)))

Negate(a) == Signed(~IsNeg(a), Mag(a))
Minus(a, b) == Plus(a, Negate(b))
Times(a, b) == Signed(IsNeg(a) # IsNeg(b), MulMag(Mag(a), Mag(b), ""))

\* a / b of Go for b # 0: the quotient truncated toward zero.
Quo(a, b) == Signed(IsNeg(a) # IsNeg(b), DivMod(Mag(a), Mag(b), "", "").q)

\* The int64 that the 64 low bits of the integer a are (two's complement):
\* what Go's int and int64 arithmetic leaves of an exact result.
Wrap64(a) ==
    LET Low(r) ==
            LET u == IF IsNeg(a) /\ r # "" THEN SubMag(Two64, r) ELSE r IN
            IF DigitsLess(u, Two63) THEN Signed(FALSE, u) ELSE Signed(TRUE, SubMag(Two64, u))
    IN  IF DigitsLess(Mag(a), Two63) THEN a ELSE Low(DivMod(Mag(a), Two64, "", "").r)

\* The multiple of step nearest the magnitude m, the even multiple of two
\* equally near.
RoundToStep(m, step) ==
    LET Pick(d, twice) ==
            IF DigitsLess(twice, step) \/ (twice = step /\ LastDigit(d.q) % 2 = 0)
            THEN MulMag(d.q, step, "")
            ELSE MulMag(AddMag(d.q, "1", 0), step, "")
        Half(d) == Pick(d, AddMag(d.r, d.r, 0))
    IN  Half(DivMod(m, step, "", ""))

\* float64 keeps 53 bits: a magnitude up to limit = 2^53 * step is rounded
\* to a multiple of step.
RECURSIVE RoundBits(_, _, _)
RoundBits(m, limit, step) ==
    IF ~DigitsLess(limit, m) THEN RoundToStep(m, step)
    ELSE RoundBits(m, TimesSmall(limit, 2), TimesSmall(step, 2))

\* float64(a) for an integer a, which is an integer again: a itself up to
\* 2^53, the nearest float64 (ties to even) beyond.
Float64OfMag(m) == IF ~DigitsLess(Two53, m) THEN m ELSE RoundBits(m, Two54, "2")
Float64OfInt(a) == Signed(IsNeg(a), Float64OfMag(Mag(a)))

\* strconv.Atoi with the error dropped (v, _ := strconv.Atoi(s)), int being
\* 64 bits wide: an optional sign and decimal digits.  ParseUint reads the
\* digits from the left and returns its range error as soon as they leave
\* uint64, before it looks at the characters that follow; ParseInt turns
\* that error, and a number beyond int64, into the nearest int, which the
\* caller then keeps.  A syntax error (no digits, or a character that is no
\* digit met before the digits leave uint64) yields 0.
Atoi(s) ==
    LET signed == Len(s) > 0 /\ SubSeq(s, 1, 1) \in {"+", "-"}
        neg    == signed /\ SubSeq(s, 1, 1) = "-"
        body   == IF signed THEN SubSeq(s, 2, Len(s)) ELSE s
        run    == CHOOSE k \in 0..Len(body) :
                      /\ \A i \in 1..k : IsDigit(SubSeq(body, i, i))
                      /\ k = Len(body) \/ ~IsDigit(SubSeq(body, k + 1, k + 1))
        digits == StripLeadingZeros(SubSeq(body, 1, run))
    IN  IF DigitsLess("18446744073709551615", digits)
        THEN IF neg THEN MinInt64 ELSE MaxInt64
        ELSE IF Len(body) = 0 \/ run # Len(body) THEN "0"
        ELSE IF neg
             THEN IF DigitsLess(Two63, digits) THEN MinInt64 ELSE Signed(TRUE, digits)
        ELSE IF DigitsLess(MaxInt64, digits) THEN MaxInt64 ELSE Signed(FALSE, digits)

\* parseInt
parseInt(s) ==
    LET t == TrimSpace(s) IN
    IF t = "[N/A]" \/ t = "N/A" \/ t = "" THEN "0" ELSE Atoi(t)

\* A float64 value.  A finite one is named by the shortest decimal that
\* identifies it, mant * 10^exp with mant not a multiple of 10 (what
\* strconv.FormatFloat(f, 'g', -1, 64) and encoding/json print), and its sign
\* (there is a negative zero); the others are the infinities and NaN.
Finite(neg, mant, exp) == [k |-> "fin", neg |-> neg, mant |-> mant, exp |-> exp]
FloatZero == Finite(FALSE, 0, 0)
Inf(neg) == [k |-> "inf", neg |-> neg, mant |-> 0, exp |-> 0]
NaN == [k |-> "nan", neg |-> FALSE, mant |-> 0, exp |-> 0]

\* The ASCII lower case of a character.
Lower(c) ==
    LET i == Index("ABCDEFGHIJKLMNOPQRSTUVWXYZ", c) IN
    IF i = 0 THEN c ELSE SubSeq("abcdefghijklmnopqrstuvwxyz", i, i)

RECURSIVE LowerAll(_)
LowerAll(s) ==
    IF Len(s) = 0 THEN "" ELSE Lower(SubSeq(s, 1, 1)) \o LowerAll(SubSeq(s, 2, Len(s)))

IsHexLetter(c) == Lower(c) \in {"a", "b", "c", "d", "e", "f"}

\* strconv's readFloat, the loop over the mantissa from position st.i: nd
\* counts the digits after the leading zeros, ds keeps them, dp is the
\* position of the point among them.
RECURSIVE MantissaScan(_, _, _)
MantissaScan(s, hex, st) ==
    IF st.i > Len(s) THEN st
    ELSE LET c    == SubSeq(s, st.i, st.i)
             next == [st EXCEPT !.i = @ + 1]
         IN  IF c = "_" THEN MantissaScan(s, hex, [next EXCEPT !.underscores = TRUE])
             ELSE IF c = "." THEN
                    IF st.sawdot THEN st
                    ELSE MantissaScan(s, hex, [next EXCEPT !.sawdot = TRUE, !.dp = st.nd])
             ELSE IF IsDigit(c) THEN
                    IF c = "0" /\ st.nd = 0
                    THEN MantissaScan(s, hex, [next EXCEPT !.sawdigits = TRUE, !.dp = @ - 1])
                    ELSE MantissaScan(s, hex, [next EXCEPT !.sawdigits = TRUE,
                                                           !.nd = @ + 1, !.ds = @ \o c])
             ELSE IF hex /\ IsHexLetter(c) THEN
                    MantissaScan(s, hex, [next EXCEPT !.sawdigits = TRUE,
                                                      !.nd = @ + 1, !.ds = @ \o Lower(c)])
             ELSE st

\* readFloat, the loop over the digits of the exponent from position st.i.
RECURSIVE ExponentScan(_, _)
ExponentScan(s, st) ==
    IF st.i > Len(s) THEN st
    ELSE LET c == SubSeq(s, st.i, st.i) IN
         IF c = "_" THEN ExponentScan(s, [st EXCEPT !.i = @ + 1, !.underscores = TRUE])
         ELSE IF IsDigit(c) THEN
                ExponentScan(s, [st EXCEPT !.i = @ + 1,
                                           !.e = IF @ < 10000 THEN @ * 10 + DigitVal(c) ELSE @])
         ELSE st

\* strconv's underscoreOK, the loop from position i; saw is the kind of the
\* last character.
RECURSIVE UnderscoreScan(_, _, _, _)
UnderscoreScan(s, i, hex, saw) ==
    IF i > Len(s) THEN saw # "_"
    ELSE LET c == SubSeq(s, i, i) IN
         IF IsDigit(c) \/ (hex /\ IsHexLetter(c)) THEN UnderscoreScan(s, i + 1, hex, "0")
         ELSE IF c = "_" THEN saw = "0" /\ UnderscoreScan(s, i + 1, hex, "_")
         ELSE saw # "_" /\ UnderscoreScan(s, i + 1, hex, "!")

\* underscoreOK: every underscore separates two digits (a base prefix counts
\* as a digit).
underscoreOK(s) ==
    LET t   == IF Len(s) >= 1 /\ SubSeq(s, 1, 1) \in {"+", "-"} THEN SubSeq(s, 2, Len(s)) ELSE s
        pre == Len(t) >= 2 /\ SubSeq(t, 1, 1) = "0" /\ Lower(SubSeq(t, 2, 2)) \in {"b", "o", "x"}
    IN  UnderscoreScan(t, IF pre THEN 3 ELSE 1, pre /\ Lower(SubSeq(t, 2, 2)) = "x",
                       IF pre THEN "0" ELSE "^")

\* readFloat: whether a number was read, how many characters of s it takes
\* (n), and the number as sign, digits ds (decimal, or hexadecimal when hex)
\* and exponent exp of 10 (of 2 when hex): it is ds * 10^exp (ds * 2^exp).
readFloat(s) ==
    LET Read(hex, m, hasExp, expOK, esign, x) ==
            LET n  == IF hasExp THEN x.i - 1 ELSE m.i - 1
                us == IF hasExp THEN x.underscores ELSE m.underscores
                dp == IF m.sawdot THEN m.dp ELSE m.nd
                e  == IF ~hasExp THEN 0 ELSE IF esign = "-" THEN 0 - x.e ELSE x.e
            IN  [ok  |-> /\ m.sawdigits
                         /\ hasExp => expOK
                         /\ hex => hasExp
                         /\ us => underscoreOK(SubSeq(s, 1, n)),
                 n   |-> n,
                 neg |-> Len(s) > 0 /\ SubSeq(s, 1, 1) = "-",
                 hex |-> hex,
                 ds  |-> m.ds,
                 exp |-> IF hex THEN 4 * (dp - m.nd) + e ELSE dp - m.nd + e]
        Exponent(hex, m, hasExp, esign, j) ==
            Read(hex, m, hasExp, j <= Len(s) /\ IsDigit(SubSeq(s, j, j)), esign,
                 ExponentScan(s, [i |-> j, e |-> 0, underscores |-> m.underscores]))
        Mantissa(hex, m) ==
            Exponent(hex, m,
                     m.i <= Len(s) /\ Lower(SubSeq(s, m.i, m.i)) = (IF hex THEN "p" ELSE "e"),
                     IF m.i + 1 <= Len(s) THEN SubSeq(s, m.i + 1, m.i + 1) ELSE "",
                     IF m.i + 1 <= Len(s) /\ SubSeq(s, m.i + 1, m.i + 1) \in {"+", "-"}
                     THEN m.i + 2 ELSE m.i + 1)
        Base(i0, hex) ==
            Mantissa(hex, MantissaScan(s, hex,
                              [i |-> IF hex THEN i0 + 2 ELSE i0, nd |-> 0, dp |-> 0, ds |-> "",
                               sawdot |-> FALSE, sawdigits |-> FALSE, underscores |-> FALSE]))
        Sign(i0) ==
            Base(i0, i0 + 2 <= Len(s) /\ SubSeq(s, i0, i0) = "0"
                         /\ Lower(SubSeq(s, i0 + 1, i0 + 1)) = "x")
    IN  Sign(IF Len(s) > 0 /\ SubSeq(s, 1, 1) \in {"+", "-"} THEN 2 ELSE 1)

\* The digits of 2^1024 - 2^970, half a step above the largest float64: a
\* number rounds to infinity exactly when it is at least this.
Float64Limit ==
    "179769313486231580793728971405303415079934132710037826936173"
    \o "778980444968292764750946649017977587207096330286416692887910"
    \o "946555547851940402630657488671505820681908902000708383676273"
    \o "854845817711531764475730270069855571366959622842914819860834"
    \o "936475292719074168444365510704342711559699508093042880177904"
    \o "174497792"

\* Whether d * 10^(E + 1 - Len(d)) is at least Float64Limit, for digits d
\* without leading zeros (E is the power of 10 of the first digit): by the
\* digits they have in common, Float64Limit being the greater when those
\* are the same and d has fewer.
Overflows(d, E) ==
    LET n == IF Len(d) < Len(Float64Limit) THEN Len(d) ELSE Len(Float64Limit)
        a == SubSeq(d, 1, n)
        b == SubSeq(Float64Limit, 1, n)
    IN  E > 308 \/ (E = 308 /\ (DigitsLess(b, a) \/ (a = b /\ n = Len(Float64Limit))))

\* The float64 nearest the positive number m * 10^e (ties to the even
\* mantissa), named by its shortest decimal <<mant, exp>>; m * 10^e is below
\* Float64Limit.  The finite float64 magnitudes are the k * 2^q of Floats.
\* Its names are the decimals that read back as it: those below Float64Limit
\* (Limit, as a fraction) whose nearest float64 it is.  Of the shortest names
\* strconv.FormatFloat takes the one closest to it, and of two equally
\* close the one with the even last digit.
RoundFloat64(m, e) ==
    LET Frac(a, b, x) == IF x >= 0 THEN <<a * b^x, 1>> ELSE <<a, b^(0 - x)>>
        Dist(p, q) == LET d == p[1] * q[2] - q[1] * p[2]
                      IN  <<IF d < 0 THEN 0 - d ELSE d, p[2] * q[2]>>
        Le(p, q) == p[1] * q[2] <= q[1] * p[2]
        Floats == {f \in (0..(2^53 - 1)) \X (-1074..971) : f[2] = -1074 \/ f[1] >= 2^52}
        Val(f) == Frac(f[1], 2, f[2])
        Nearest(x) ==
            CHOOSE f \in Floats : \A g \in (Floats \ {f}) :
                /\ Le(Dist(x, Val(f)), Dist(x, Val(g)))
                /\ Le(Dist(x, Val(g)), Dist(x, Val(f))) => f[1] % 2 = 0
        near == Nearest(Frac(m, 10, e))
        Limit == Frac(2^54 - 1, 2, 970)
        Names == {c \in Nat \X Int : /\ c[1] % 10 # 0
                                      /\ ~Le(Limit, Frac(c[1], 10, c[2]))
                                      /\ Nearest(Frac(c[1], 10, c[2])) = near}
        Off(c) == Dist(Frac(c[1], 10, c[2]), Val(near))
    IN  IF near[1] = 0 THEN <<0, 0>>
        ELSE CHOOSE c \in Names : \A o \in Names :
                \/ Len(DigitsOf(c[1])) < Len(DigitsOf(o[1]))
                \/ /\ Len(DigitsOf(c[1])) = Len(DigitsOf(o[1]))
                   /\ Le(Off(c), Off(o))
                   /\ Le(Off(o), Off(c)) => (c = o \/ c[1] % 2 = 0)

\* The float64 that sign, decimal digits ds and exponent exp denote, as
\* strconv.ParseFloat rounds it.  A number below 10^(-324) is less than half
\* the smallest float64 (2^(-1075)) and rounds to zero; a number of at most
\* 15 significant digits in the range of the normal float64 is its own
\* shortest name.
Float64Of(neg, ds, exp) ==
    LET d == StripTrailingZeros(ds)
        e == exp + Len(ds) - Len(d)
        E == e + Len(d) - 1
    IN  IF d = "" THEN Finite(neg, 0, 0)
        ELSE IF Overflows(d, E) THEN Inf(neg)
        ELSE IF E < -324 THEN Finite(neg, 0, 0)
        ELSE IF Len(d) <= 15 /\ E >= -307 THEN Finite(neg, DigitsVal(d, 10, 0), e)
        ELSE LET r == RoundFloat64(DigitsVal(d, 10, 0), e) IN Finite(neg, r[1], r[2])

\* strconv.ParseFloat(s, 64) with the error dropped: infinity and NaN by
\* name, else a decimal or hexadecimal number with optional point, exponent
\* and digit-separating underscores, which must be the whole of s.  A syntax
\* error yields 0; a range error yields an infinity, which the caller keeps.
ParseFloat(s) ==
    LET Number(r) ==
            IF ~r.ok \/ r.n # Len(s) THEN FloatZero
            ELSE Float64Of(r.neg,
                           IF ~r.hex THEN r.ds
                           ELSE IF r.exp >= 0
                                THEN DigitsOf(DigitsVal(r.ds, 16, 0) * 2^(r.exp))
                                ELSE DigitsOf(DigitsVal(r.ds, 16, 0) * 5^(0 - r.exp)),
                           IF r.hex /\ r.exp >= 0 THEN 0 ELSE r.exp)
        Named(low) ==
            IF low \in {"inf", "+inf", "infinity", "+infinity"} THEN Inf(FALSE)
            ELSE IF low \in {"-inf", "-infinity"} THEN Inf(TRUE)
            ELSE IF low = "nan" THEN NaN
            ELSE Number(readFloat(s))
    IN  Named(LowerAll(s))

\* parseFloat
parseFloat(s) ==
    LET t == TrimSpace(s) IN
    IF t = "[N/A]" \/ t = "N/A" \/ t = "" THEN FloatZero ELSE ParseFloat(t)

\* ------------------------------------------------------------------- slices

\* A Go slice value: nil, or a (possibly empty) list.
NilSlice == [nil |-> TRUE, items |-> <<>>]
EmptySlice == [nil |-> FALSE, items |-> <<>>]
\* append(s, x): never nil.
AppendSlice(s, x) == [nil |-> FALSE, items |-> Append(s.items, x)]

\* --------------------------------------------------------- nvidia-smi parsing

\* One device row, parsed (GPUInfo); Processes is attached later by the join.
GPUInfoOf(fields) ==
    [Index             |-> parseInt(fields[1]),
     Name              |-> fields[2],
     UUID              |-> fields[3],
     DriverVersion     |-> fields[4],
     TemperatureC      |-> parseInt(fields[5]),
     FanSpeedPct       |-> parseInt(fields[6]),
     PowerDrawW        |-> parseFloat(fields[7]),
     PowerLimitW       |-> parseFloat(fields[8]),
     MemoryUsedMiB     |-> parseInt(fields[9]),
     MemoryTotalMiB    |-> parseInt(fields[10]),
     MemoryFreeMiB     |-> parseInt(fields[11]),
     GPUUtilizationPct |-> parseInt(fields[12]),
     MemUtilizationPct |-> parseInt(fields[13]),
     PState            |-> fields[14],
     PCIEGenCurrent    |-> parseInt(fields[15]),
     PCIEGenMax        |-> parseInt(fields[16]),
     Processes         |-> NilSlice]

\* The loop of queryGPUs over the lines of the command's output.
RECURSIVE GPURows(_, _)
GPURows(lines, acc) ==
    IF lines = <<>> THEN acc
    ELSE LET line   == TrimSpace(Head(lines))
             fields == Split(line, ", ")
         IN  IF line = "" \/ Len(fields) < GPUFieldCount
             THEN GPURows(Tail(lines), acc)
             ELSE GPURows(Tail(lines), AppendSlice(acc, GPUInfoOf(fields)))

\* queryGPUs on the command's standard output (the command succeeded).
queryGPUs(out) == GPURows(Split(TrimSpace(out), "\n"), NilSlice)

\* One process row, parsed (procWithUUID).
ProcOf(fields) ==
    [uuid |-> fields[1],
     proc |-> [PID         |-> parseInt(fields[2]),
               ProcessName |-> fields[3],
               UsedMemory  |-> parseInt(fields[4])]]

\* The loop of queryProcesses over the lines of the command's output.
RECURSIVE ProcRows(_, _)
ProcRows(lines, acc) ==
    IF lines = <<>> THEN acc
    ELSE LET line   == TrimSpace(Head(lines))
             fields == Split(line, ", ")
         IN  IF line = "" \/ Len(fields) < ProcFieldCount
             THEN ProcRows(Tail(lines), acc)
             ELSE ProcRows(Tail(lines), AppendSlice(acc, ProcOf(fields)))

\* queryProcesses on the command's standard output (the command succeeded).
queryProcesses(out) == ProcRows(Split(TrimSpace(out), "\n"), NilSlice)

\* A grouping that put every process under every uuid: C17 rejects it.
GroupAll(procs, m) ==
    [u \in {procs[j].uuid : j \in 1..Len(procs)} |->
        [nil |-> FALSE, items |-> [j \in 1..Len(procs) |-> procs[j].proc]]]

\* procMap of fetchGPUMetrics: uuid -> the processes of that uuid, in row order.
RECURSIVE GroupProcs(_, _)
GroupProcs(procs, m) ==
    IF procs = <<>> THEN m
    ELSE LET p   == Head(procs)
             old == IF p.uuid \in DOMAIN m THEN m[p.uuid] ELSE NilSlice
         IN  GroupProcs(Tail(procs),
                        [u \in DOMAIN m \cup {p.uuid} |->
                            IF u = p.uuid THEN AppendSlice(old, p.proc) ELSE m[u]])

\* The empty Go map.
EmptyMap == [u \in {} |-> NilSlice]

\* An attach that left the list nil when no group matched: C15 rejects it.
AttachedOrNil(procMap, gpu) ==
    IF gpu.UUID \in DOMAIN procMap THEN procMap[gpu.UUID] ELSE NilSlice

\* The body of the attach loop for one device: the group of its uuid, or an
\* empty (non-nil) list.
AttachedProcesses(procMap, gpu) ==
    IF gpu.UUID \in DOMAIN procMap THEN procMap[gpu.UUID] ELSE EmptySlice

\* A row as nvidia-smi prints it (text), whether it has the fields of the
\* schema (keep), and the record the row stands for (info).
DevA ==
    [text |-> "0, RTX 4090, GPU-a, 550.54, 41, 30, 65.20, 450.00, 1024, 24564, 23540, 7, 3, P2, 4, 4",
     keep |-> TRUE,
     info |-> [Index |-> "0", Name |-> "RTX 4090", UUID |-> "GPU-a",
               DriverVersion |-> "550.54", TemperatureC |-> "41", FanSpeedPct |-> "30",
               PowerDrawW |-> Finite(FALSE, 652, -1),
               PowerLimitW |-> Finite(FALSE, 45, 1),
               MemoryUsedMiB |-> "1024", MemoryTotalMiB |-> "24564", MemoryFreeMiB |-> "23540",
               GPUUtilizationPct |-> "7", MemUtilizationPct |-> "3", PState |-> "P2",
               PCIEGenCurrent |-> "4", PCIEGenMax |-> "4", Processes |-> NilSlice]]

\* A device without fan and power sensors, and one unparsable reading.
DevB ==
    [text |-> "1, A100, GPU-b, 550.54, ERR!, [N/A], [N/A], 300, 0, 81920, 81920, N/A, 0, P0, 3, 4",
     keep |-> TRUE,
     info |-> [Index |-> "1", Name |-> "A100", UUID |-> "GPU-b",
               DriverVersion |-> "550.54", TemperatureC |-> "0", FanSpeedPct |-> "0",
               PowerDrawW |-> FloatZero,
               PowerLimitW |-> Finite(FALSE, 3, 2),
               MemoryUsedMiB |-> "0", MemoryTotalMiB |-> "81920", MemoryFreeMiB |-> "81920",
               GPUUtilizationPct |-> "0", MemUtilizationPct |-> "0", PState |-> "P0",
               PCIEGenCurrent |-> "3", PCIEGenMax |-> "4", Processes |-> NilSlice]]

\* A device whose power reading is a numeral too large for a float64, which
\* strconv.ParseFloat reports as a range error; the other fields show the
\* spaces and number forms the parsers accept.  The record is what the row
\* stands for when a reading that does not parse counts as zero.
DevOver ==
    [text |-> "2, H100, GPU-c, 550.54, 55, +40, 1e999, 7e2, 10, 81559, 81549, 1, 0, P0, 5, 5",
     keep |-> TRUE,
     info |-> [Index |-> "2", Name |-> "H100", UUID |-> "GPU-c",
               DriverVersion |-> "550.54", TemperatureC |-> "55", FanSpeedPct |-> "40",
               PowerDrawW |-> FloatZero,
               PowerLimitW |-> Finite(FALSE, 7, 2),
               MemoryUsedMiB |-> "10", MemoryTotalMiB |-> "81559", MemoryFreeMiB |-> "81549",
               GPUUtilizationPct |-> "1", MemUtilizationPct |-> "0", PState |-> "P0",
               PCIEGenCurrent |-> "5", PCIEGenMax |-> "5", Processes |-> NilSlice]]

\* Lines that are not device rows.
DevShort == [text |-> "1, broken", keep |-> FALSE, info |-> DevA.info]
DevBlank == [text |-> "  ", keep |-> FALSE, info |-> DevA.info]

DevLines == {DevA, DevB, DevOver, DevShort, DevBlank}

ProcA ==
    [text |-> "GPU-a, 10, blender, 2048", keep |-> TRUE,
     info |-> [uuid |-> "GPU-a",
               proc |-> [PID |-> "10", ProcessName |-> "blender", UsedMemory |-> "2048"]]]
ProcB1 ==
    [text |-> "GPU-b, 11, python, 100", keep |-> TRUE,
     info |-> [uuid |-> "GPU-b",
               proc |-> [PID |-> "11", ProcessName |-> "python", UsedMemory |-> "100"]]]
ProcB2 ==
    [text |-> "GPU-b, 13, ollama, [N/A]", keep |-> TRUE,
     info |-> [uuid |-> "GPU-b",
               proc |-> [PID |-> "13", ProcessName |-> "ollama", UsedMemory |-> "0"]]]
\* A process on a device the device query did not list.
ProcX ==
    [text |-> "GPU-x, 12, ghost, 5", keep |-> TRUE,
     info |-> [uuid |-> "GPU-x",
               proc |-> [PID |-> "12", ProcessName |-> "ghost", UsedMemory |-> "5"]]]
ProcBad == [text |-> "bad row", keep |-> FALSE, info |-> ProcA.info]

ProcLines == {ProcA, ProcB1, ProcB2, ProcX, ProcBad}

\* The standard output of nvidia-smi --format=csv,noheader for the given
\* rows: one line per row.
RECURSIVE Render(_)
Render(rows) ==
    IF rows = <<>> THEN "" ELSE Head(rows).text \o "\n" \o Render(Tail(rows))

\* What the two nvidia-smi commands can print when nothing says otherwise.
GPUOutputs == { <<DevA>>, <<DevOver, DevShort, DevB>> }
ProcOutputs == { <<>>, <<ProcB1, ProcX, ProcBad, ProcB2>> }

\* What a command can answer: a failure of the command, or its standard output.
CmdFailed == [err |-> TRUE, out |-> ""]
CmdResult(out) == [err |-> FALSE, out |-> out]

\* The answers of a command that can print any of the given row sequences.
CmdResults(outs) == {CmdFailed} \cup {CmdResult(Render(o)) : o \in outs}

\* ------------------------------------------------------- Ollama: the data

\* strings.Fields: the maximal runs of non-space characters.
RECURSIVE FieldsFrom(_, _, _)
FieldsFrom(s, cur, acc) ==
    IF Len(s) = 0 THEN (IF cur = "" THEN acc ELSE Append(acc, cur))
    ELSE LET c == SubSeq(s, 1, 1)
             rest == SubSeq(s, 2, Len(s))
         IN  IF IsSpace(c)
             THEN FieldsFrom(rest, "", IF cur = "" THEN acc ELSE Append(acc, cur))
             ELSE FieldsFrom(rest, cur \o c, acc)

Fields(s) == FieldsFrom(s, "", <<>>)

\* The float64 nearest mant * 10^exp for a mantissa of at most 15 digits and
\* a number in the range of the normal float64: such a number, its trailing
\* zeros moved to the exponent, is the shortest decimal that names it.
RECURSIVE ShortFloat(_, _, _)
ShortFloat(neg, mant, exp) ==
    IF mant = 0 THEN Finite(neg, 0, 0)
    ELSE IF mant % 10 = 0 THEN ShortFloat(neg, mant \div 10, exp + 1)
    ELSE Finite(neg, mant, exp)

\* A JSON value in model_info as encoding/json decodes it into an
\* interface{}: a number is the float64 nearest to it (JFloat(mant, exp) for
\* the number mant * 10^exp, JNum(n) for the whole number n), a string is
\* itself.
JFloat(mant, exp) ==
    [t |-> "num", v |-> ShortFloat(mant < 0, IF mant < 0 THEN 0 - mant ELSE mant, exp)]
JNum(n) == JFloat(n, 0)
JStr(x) == [t |-> "str", v |-> x]

\* runtime.GOARCH: the machine the program was built for.
GOARCH == world.arch

\* The machines tried.  Converting to int a float64 that int64 does not hold
\* gives an implementation-dependent value: the amd64 instruction answers the
\* smallest int64 whatever the sign, the arm64 instruction the nearest int64
\* (and 0 for NaN).
Builds == {"amd64", "arm64"}

\* int(f) for a float64 of sign neg whose magnitude, the fraction dropped,
\* is mag.
IntOf(neg, mag) ==
    IF DigitsLess(mag, Two63) \/ (neg /\ mag = Two63) THEN Signed(neg, mag)
    ELSE IF neg \/ GOARCH = "amd64" THEN MinInt64
    ELSE MaxInt64

\* int(f) for the float64 f.  The shortest decimal that names f has the
\* whole part f has; a whole number of 20 digits or more is beyond int64.
IntOfFloat64(f) ==
    LET Whole(m) == IF Len(m) > 19 THEN IntOf(f.neg, Two64) ELSE IntOf(f.neg, Float64OfMag(m))
    IN  IF f.k = "nan" THEN (IF GOARCH = "amd64" THEN MinInt64 ELSE "0")
        ELSE IF f.k = "inf" THEN IntOf(f.neg, Two64)
        ELSE IF f.exp >= 0 THEN Whole(DigitsOf(f.mant) \o Zeros(f.exp))
        ELSE IntOf(f.neg, DivMod(DigitsOf(f.mant), "1" \o Zeros(0 - f.exp), "", "").q)

\* A lookup that took a missing count for 1: C12 rejects it.
modelInfoIntMissingIsOne(info, key) ==
    IF key \notin DOMAIN info THEN "1"
    ELSE IF info[key].t = "num" THEN IntOfFloat64(info[key].v) ELSE "0"

\* modelInfoInt: int(n) of the number under key, 0 when the key is absent or
\* its value is not a number.
modelInfoInt(info, key) ==
    IF key \notin DOMAIN info THEN "0"
    ELSE IF info[key].t = "num" THEN IntOfFloat64(info[key].v) ELSE "0"

\* modelInfoString: the string under key, "" when absent or not a string.
modelInfoString(info, key) ==
    IF key \notin DOMAIN info THEN ""
    ELSE IF info[key].t = "str" THEN info[key].v ELSE ""

\* kvDtypeBytesPerElement, in sixteenths (0.5625 = 9/16, 1.0625 = 17/16, 2.0 = 32/16).
BytesPerElemDen == 16
kvDtypeBytesPerElement(dtype) ==
    CASE dtype = "q4_0" -> 9
      [] dtype = "q8_0" -> 17
      [] OTHER -> 32

\* paramInt: the value of the first line "key value" of the parameter block.
RECURSIVE ParamLines(_, _)
ParamLines(lines, key) ==
    IF lines = <<>> THEN "0"
    ELSE LET parts == Fields(TrimSpace(Head(lines))) IN
         IF Len(parts) = 2 /\ parts[1] = key THEN parseInt(parts[2])
         ELSE ParamLines(Tail(lines), key)

paramInt(params, key) == ParamLines(Split(params, "\n"), key)

\* The context window when neither num_ctx nor the metadata gives one.
DefaultCtx == 2048
\* 1024 * 1024.  A float64 that is a quotient by it is kept as the fraction
\* num / den, zero as 0 / 1: dividing a float64 by a power of two is exact.
MiB == 1048576

ZeroDetails == [Family |-> "", ParameterSize |-> "", QuantizationLevel |-> ""]
ZeroKVCache == [DType |-> "", BytesPerToken |-> "0", MaxSizeBytes |-> "0",
                MaxSizeMiB |-> [num |-> "0", den |-> 1]]
ZeroVRAM == [TotalBytes |-> "0", WeightsEstBytes |-> "0", KVCacheMaxBytes |-> "0"]

\* getShow's answer when it has none (a nil *ollamaShowResponse).
NilShow == [nil |-> TRUE]
\* A decoded /api/show body.
ShowOf(info, details, params) ==
    [nil |-> FALSE, ModelInfo |-> info, Details |-> details, Parameters |-> params]
\* What decoding leaves of a JSON body that has none of the three fields, as
\* the daemon's error answers {"error": "..."} are.
EmptyShow == ShowOf([k \in {} |-> JNum(0)], ZeroDetails, "")

\* The fields of a RunningModel that fetch copies from the /api/ps entry.
ReportedFields(model) ==
    [Name          |-> model.Name,
     SizeVRAMBytes |-> model.SizeVRAM,
     ParameterSize |-> model.Details.ParameterSize,
     Quantization  |-> model.Details.QuantizationLevel,
     Family        |-> model.Details.Family,
     ExpiresAt     |-> model.ExpiresAt]

\* The fields of a RunningModel that fetch derives: all zero without metadata.
ZeroDerived == [ContextWindow |-> "0", KVCache |-> ZeroKVCache, VRAM |-> ZeroVRAM]

\* The body of "if show != nil { ... }" for one loaded model, a statement a
\* line, each taking the locals assigned before it.  The ints are 64 bits
\* wide: 2*nLayers*nKVHeads*headDim wraps at every product, its conversion to
\* float64 and the product with the element size round to 53 bits (the
\* element size is a number of sixteenths, so the product is the rounded
\* product with that number, over 16), int() drops the fraction, and the two
\* int64 operations wrap.
DerivedFields(model, show, kvDtype) ==
    LET Sizes(ctxLen, bytesPerToken, maxBytes, weightsEst) ==
            [ContextWindow |-> ctxLen,
             KVCache |-> [DType |-> kvDtype, BytesPerToken |-> bytesPerToken,
                          MaxSizeBytes |-> maxBytes,
                          MaxSizeMiB |-> IF maxBytes = "0" THEN [num |-> "0", den |-> 1]
                                         ELSE [num |-> Float64OfInt(maxBytes), den |-> MiB]],
             VRAM |-> [TotalBytes |-> model.SizeVRAM,
                       WeightsEstBytes |-> IF IsNeg(weightsEst) THEN model.Size
                                           ELSE weightsEst,
                       KVCacheMaxBytes |-> maxBytes]]
        Max(ctxLen, bytesPerToken, maxBytes) ==
            Sizes(ctxLen, bytesPerToken, maxBytes, Wrap64(Minus(model.SizeVRAM, maxBytes)))
        PerToken(ctxLen, bytesPerToken) ==
            Max(ctxLen, bytesPerToken, Wrap64(Times(bytesPerToken, ctxLen)))
        Scaled(ctxLen, neg, product) ==
            PerToken(ctxLen,
                     IntOf(neg, DivMod(Float64OfMag(product), GoInt(BytesPerElemDen),
                                       "", "").q))
        Elements(ctxLen, n) ==
            Scaled(ctxLen, IsNeg(n),
                   TimesSmall(Mag(Float64OfInt(n)), kvDtypeBytesPerElement(kvDtype)))
        Counts(nLayers, nHeads, nKVHeads, embLen, ctxLen) ==
            IF Less("0", nLayers) /\ Less("0", nKVHeads) /\ Less("0", nHeads)
               /\ Less("0", embLen)
            THEN Elements(ctxLen,
                          Wrap64(Times(Wrap64(Times(Wrap64(Times("2", nLayers)), nKVHeads)),
                                       Quo(embLen, nHeads))))
            ELSE [ContextWindow |-> ctxLen, KVCache |-> ZeroKVCache, VRAM |-> ZeroVRAM]
        Default(nLayers, nHeads, nKVHeads, embLen, ctxLen) ==
            Counts(nLayers, nHeads, nKVHeads, embLen,
                   IF ctxLen = "0" THEN GoInt(DefaultCtx) ELSE ctxLen)
        NumCtx(nLayers, nHeads, nKVHeads, embLen, ctxLen, numCtx) ==
            Default(nLayers, nHeads, nKVHeads, embLen,
                    IF Less("0", numCtx) THEN numCtx ELSE ctxLen)
        Arch(arch) ==
            NumCtx(modelInfoInt(show.ModelInfo, arch \o ".block_count"),
                   modelInfoInt(show.ModelInfo, arch \o ".attention.head_count"),
                   modelInfoInt(show.ModelInfo, arch \o ".attention.head_count_kv"),
                   modelInfoInt(show.ModelInfo, arch \o ".embedding_length"),
                   modelInfoInt(show.ModelInfo, arch \o ".context_length"),
                   paramInt(show.Parameters, "num_ctx"))
        ArchInfo(arch) == Arch(IF arch = "" THEN model.Details.Family ELSE arch)
    IN  ArchInfo(modelInfoString(show.ModelInfo, "general.architecture"))

\* One turn of "for _, model := range ps.Models": the RunningModel appended.
RunningModelOf(model, show, kvDtype) ==
    LET Model(rep, der) ==
            [Name |-> rep.Name, SizeVRAMBytes |-> rep.SizeVRAMBytes,
             ParameterSize |-> rep.ParameterSize, Quantization |-> rep.Quantization,
             Family |-> rep.Family, ExpiresAt |-> rep.ExpiresAt,
             ContextWindow |-> der.ContextWindow, KVCache |-> der.KVCache,
             VRAM |-> der.VRAM]
    IN  Model(ReportedFields(model),
              IF show.nil THEN ZeroDerived ELSE DerivedFields(model, show, kvDtype))

\* for _, t := range tags.Models { stats.TotalDiskUsageBytes += t.Size }: the
\* int64 total after the loop over models, each addition wrapping.
RECURSIVE SumSizes(_, _)
SumSizes(models, total) ==
    IF models = <<>> THEN total
    ELSE SumSizes(Tail(models), Wrap64(Plus(total, Head(models).Size)))

\* ------------------------------------------- Ollama: what the daemon answers

LlamaDetails == [Family |-> "llama", ParameterSize |-> "8.0B", QuantizationLevel |-> "Q4_0"]
QwenDetails == [Family |-> "qwen2", ParameterSize |-> "7.6B", QuantizationLevel |-> "Q4_K_M"]

\* /api/ps entries
PsLlama == [Name |-> "llama3:8b", Size |-> "90000", SizeVRAM |-> "100000",
            Details |-> LlamaDetails, ExpiresAt |-> "2026-01-01T00:05:00Z"]
PsQwen == [Name |-> "qwen2:7b", Size |-> "70000", SizeVRAM |-> "1000",
           Details |-> QwenDetails, ExpiresAt |-> "2026-01-01T00:09:00Z"]

\* /api/tags entries
TagLlama == [Name |-> "llama3:8b", Size |-> "4700", Details |-> LlamaDetails]
TagQwen == [Name |-> "qwen2:7b", Size |-> "4400", Details |-> QwenDetails]

\* /api/show bodies the daemon has for each model
ShowBody(name) ==
    IF name = "llama3:8b"
    THEN ShowOf([k \in {"general.architecture", "llama.block_count",
                        "llama.attention.head_count", "llama.attention.head_count_kv",
                        "llama.embedding_length", "llama.context_length"} |->
                    CASE k = "general.architecture" -> JStr("llama")
                      [] k = "llama.block_count" -> JNum(2)
                      [] k = "llama.attention.head_count" -> JNum(4)
                      [] k = "llama.attention.head_count_kv" -> JNum(2)
                      [] k = "llama.embedding_length" -> JNum(64)
                      [] k = "llama.context_length" -> JNum(128)],
                LlamaDetails, "stop \"<|eot_id|>\"\nnum_ctx    64\n")
    ELSE ShowOf([k \in {"qwen2.block_count", "qwen2.attention.head_count",
                        "qwen2.attention.head_count_kv", "qwen2.embedding_length",
                        "qwen2.context_length", "general.parameter_count"} |->
                    CASE k = "qwen2.block_count" -> JNum(3)
                      [] k = "qwen2.attention.head_count" -> JNum(6)
                      [] k = "qwen2.attention.head_count_kv" -> JNum(2)
                      [] k = "qwen2.embedding_length" -> JNum(100)
                      [] k = "qwen2.context_length" -> JNum(256)
                      [] k = "general.parameter_count" -> JStr("7.6B")],
                QwenDetails, "")

\* An HTTP call through getJSON: an error (transport or decoding), or the
\* decoded value.
CallFailed == [err |-> TRUE]
Decoded(v) == [err |-> FALSE, v |-> v]

\* The daemon's endpoints.  A behaviour has one unreliable endpoint: each call
\* to it may fail or succeed, the calls to the others succeed.
Endpoints == {"/", "/api/version", "/api/tags", "/api/ps", "/api/show"}

\* The outcomes of a call to endpoint e, of which bad are failures.
Outcomes(f, e, bad, good) == IF f = e THEN bad \cup good ELSE good

LivenessResults(f) == Outcomes(f, "/", {FALSE}, {TRUE})
VersionResults(f) ==
    Outcomes(f, "/api/version", {CallFailed}, {Decoded([Version |-> "0.5.7"])})
\* tags: the catalog the daemon has; ps: the models it has loaded.
TagsResults(f, tags) ==
    Outcomes(f, "/api/tags", {CallFailed}, {Decoded([Models |-> tags])})
PsResults(f, ps) ==
    Outcomes(f, "/api/ps", {CallFailed}, {Decoded([Models |-> ps])})

\* POST /api/show for a name: the transport fails, the body does not decode,
\* the daemon answers an error object (which decodes), or it answers the
\* model's metadata.
ShowResults(f, body) ==
    Outcomes(f, "/api/show",
             { [kind |-> "connErr",   v |-> NilShow],
               [kind |-> "badBody",   v |-> NilShow],
               [kind |-> "errorResp", v |-> EmptyShow] },
             { [kind |-> "ok",        v |-> body] })

\* A key of model_info or a line of the parameter block that the daemon does
\* not send.
NoVal == [t |-> "none", v |-> ""]
\* The value of a line of the parameter block, as the daemon writes it.
Token(x) == [t |-> "tok", v |-> x]

\* The shape of a model as the daemon knows it: what it sends (or not) for
\* each architecture key, and the num_ctx line of its parameter block.
DimsOf(layers, heads, kvHeads, emb, ctx, numCtx) ==
    [layers |-> layers, heads |-> heads, kvHeads |-> kvHeads, emb |-> emb,
     ctx |-> ctx, numCtx |-> numCtx]

LlamaDims == DimsOf(JNum(2), JNum(4), JNum(2), JNum(64), JNum(128), Token("64"))
QwenDims == DimsOf(JNum(3), JNum(6), JNum(2), JNum(100), JNum(256), NoVal)

\* The model_info object the daemon sends for a model of architecture arch
\* with shape d; declared says whether general.architecture is in it.
InfoOf(d, arch, declared) ==
    LET pairs == { <<arch \o ".block_count", d.layers>>,
                   <<arch \o ".attention.head_count", d.heads>>,
                   <<arch \o ".attention.head_count_kv", d.kvHeads>>,
                   <<arch \o ".embedding_length", d.emb>>,
                   <<arch \o ".context_length", d.ctx>>,
                   <<"general.architecture", IF declared THEN JStr(arch) ELSE NoVal>> }
        sent  == {p \in pairs : p[2].t # "none"}
    IN  [k \in {p[1] : p \in sent} |-> (CHOOSE p \in sent : p[1] = k)[2]]

\* The parameter block the daemon sends for shape d.
ParamsOf(d) ==
    IF d.numCtx.t = "none" THEN "stop \"<|eot_id|>\"\n"
    ELSE "stop \"<|eot_id|>\"\nnum_ctx    " \o d.numCtx.v \o "\n"

\* What the daemon and the two commands hold when nothing says otherwise.
\* dims is what show is made of, kept for the properties.
DefaultWorld ==
    [gpuOut  |-> GPUOutputs,
     procOut |-> ProcOutputs,
     tags    |-> <<TagLlama, TagQwen>>,
     ps      |-> <<PsLlama, PsQwen>>,
     show    |-> [n \in {"llama3:8b", "qwen2:7b"} |-> ShowBody(n)],
     dims    |-> [n \in {"llama3:8b", "qwen2:7b"} |->
                     IF n = "llama3:8b" THEN LlamaDims ELSE QwenDims],
     arch    |-> "amd64"]

\* ------------------------------------------------ Ollama: the shapes tried

\* What the daemon may send for a count: nothing, zero, or the given number.
Sent(n) == {NoVal, JNum(0), JNum(n)}

\* The small shapes: every combination of what is sent for each key.  With
\* 3 layers, 1 kv-head, 2 heads and embedding 6 the head dimension is 3 and a
\* token costs 18 elements.  No number of theirs is near the width of an int.
Shapes ==
    { DimsOf(l, h, k, e, c, n) :
        l \in Sent(3) \cup {JStr("3")}, h \in Sent(2), k \in Sent(1) \cup {JNum(-1)},
        e \in Sent(6), c \in Sent(8), n \in {NoVal, Token("0"), Token("4")} }

\* The shape of the worked example of the sizing formula.
ExampleDims ==
    DimsOf(JNum(32), JNum(32), JNum(8), JNum(4096), JNum(4096), NoVal)

\* A num_ctx of 20 digits: beyond uint64.
HugeCtx == "99999999999999999999"

\* The shapes whose numbers are fractions or reach the width of an int:
\*   a num_ctx beyond int64, on the worked example (131072 bytes per token)
\*   and on a model of 256 bytes per token, also negative and followed by a
\*   letter; a num_ctx of 2^46, which makes 131072 * num_ctx 2^63;
\*   a context length of 10^30;
\*   3 * 10^9 layers and kv-heads, whose product leaves int64;
\*   2^31 - 1 layers and kv-heads, whose product float64 does not hold and
\*   whose bytes, but for q4_0, leave int64;
\*   10^30 layers; -10^30 kv-heads; fractional counts (3.5, 0.5, -0.5) and a
\*   fractional context length (8.5).
WideShapes ==
    { DimsOf(JNum(32), JNum(32), JNum(8), JNum(4096), JNum(4096), Token(HugeCtx)),
      DimsOf(JNum(2), JNum(4), JNum(2), JNum(64), JNum(128), Token(HugeCtx)),
      DimsOf(JNum(2), JNum(4), JNum(2), JNum(64), JNum(128), Token("-" \o HugeCtx)),
      DimsOf(JNum(2), JNum(4), JNum(2), JNum(64), JNum(128), Token(HugeCtx \o "x")),
      DimsOf(JNum(32), JNum(32), JNum(8), JNum(4096), JNum(4096), Token("70368744177664")),
      DimsOf(JNum(32), JNum(32), JNum(8), JNum(4096), JFloat(1, 30), NoVal),
      DimsOf(JFloat(3, 9), JNum(1), JFloat(3, 9), JNum(1), JNum(8), NoVal),
      DimsOf(JNum(2147483647), JNum(1), JNum(2147483647), JNum(1), JNum(8), NoVal),
      DimsOf(JFloat(1, 30), JNum(2), JNum(1), JNum(6), JNum(8), NoVal),
      DimsOf(JNum(3), JNum(2), JFloat(-1, 30), JNum(6), JNum(8), NoVal),
      DimsOf(JFloat(35, -1), JNum(2), JNum(1), JNum(6), JFloat(85, -1), NoVal),
      DimsOf(JFloat(5, -1), JNum(2), JNum(1), JNum(6), JNum(8), NoVal),
      DimsOf(JNum(3), JNum(2), JFloat(-5, -1), JNum(6), JNum(8), NoVal) }

\* A loaded model "m" of family llama with the given sizes.
PsModel(size, sizeVRAM) ==
    [Name |-> "m", Size |-> size, SizeVRAM |-> sizeVRAM,
     Details |-> LlamaDetails, ExpiresAt |-> "2026-01-01T00:05:00Z"]

\* The daemon with one loaded model "m" of shape d, and a program built for
\* the given machine.
ShapeWorld(d, declared, sizeVRAM, goarch) ==
    [gpuOut  |-> {},
     procOut |-> {},
     tags    |-> <<[Name |-> "m", Size |-> "4700", Details |-> LlamaDetails]>>,
     ps      |-> <<PsModel("70000", sizeVRAM)>>,
     show    |-> [n \in {"m"} |-> ShowOf(InfoOf(d, "llama", declared), LlamaDetails,
                                         ParamsOf(d))],
     dims    |-> [n \in {"m"} |-> d],
     arch    |-> goarch]

ExampleWorld == ShapeWorld(ExampleDims, TRUE, "1000000000", "amd64")

\* A catalog whose sizes add up to more than an int64 holds.
WideCatalogWorld ==
    [ExampleWorld EXCEPT
        !.tags = <<[Name |-> "m", Size |-> MaxInt64, Details |-> LlamaDetails],
                   [Name |-> "n", Size |-> "1", Details |-> LlamaDetails]>>]

ShapeWorlds ==
    { ShapeWorld(d, declared, v, a) :
        d \in Shapes, declared \in BOOLEAN, v \in {"100", "100000"}, a \in Builds }
    \cup { ShapeWorld(d, TRUE, "100000", a) : d \in WideShapes, a \in Builds }
    \cup {ExampleWorld, WideCatalogWorld}

\* ---------------------------------------------- nvidia-smi: the rows tried

\* The sequences of at most n elements of S.
SeqsUpTo(S, n) == UNION {[1..k -> S] : k \in 0..n}

\* A host whose device query prints the lines g and whose process query
\* prints the lines p.
RowsWorld(g, p) ==
    [gpuOut |-> {g}, procOut |-> {p}, tags |-> <<>>, ps |-> <<>>,
     show |-> [n \in {} |-> NilShow], dims |-> [n \in {} |-> NoVal], arch |-> "amd64"]

RowsWorlds ==
    { RowsWorld(g, p) :
        g \in SeqsUpTo(DevLines, MaxDevRows), p \in SeqsUpTo(ProcLines, MaxProcRows) }

\* The empty showCache.
EmptyCache == [n \in {} |-> NilShow]

\* time.Now().UTC().Format(time.RFC3339) when the clock reads c: a non-empty
\* string that names the reading.
Now(c) == "T+" \o ToString(c)

\* --------------------------------------------------------------- goroutines

Threads == {"start", "loop"}
\* The HTTP handler goroutine of a behaviour with one request at a time.
OneReader == {"r1"}

\* The HTTP handler goroutines.
Readers == DOMAIN rpc

\* ------------------------------------------------------------------- heap

NilRef == [nil |-> TRUE, ref |-> 0]
RefTo(a) == [nil |-> FALSE, ref |-> a]

EmptyHeap == [a \in {} |-> 0]

\* A fresh address.
NewAddr(h) ==
    CHOOSE a \in 1..(Cardinality(DOMAIN h) + 1) :
        a \notin DOMAIN h /\ \A b \in 1..(a - 1) : b \in DOMAIN h

\* The heap with one more object.
Alloc(h, cell) ==
    LET a == NewAddr(h) IN [b \in DOMAIN h \cup {a} |-> IF b = a THEN cell ELSE h[b]]

\* The addresses reachable from the given pointers.
Reachable(h, roots) ==
    LET direct == (roots \ {0}) \cap DOMAIN h
    IN  direct \cup ({h[a].GPUs.ref : a \in {b \in direct : h[b].type = "GPUMetrics"}} \ {0})

\* Go's garbage collector: an object nothing points to is gone.
Collect(h, roots) == [a \in Reachable(h, roots) \cap DOMAIN h |-> h[a]]

\* What a pointer to a snapshot shows to who follows it (JSON encoding reads
\* exactly this): the struct's fields with the slices' elements.
NoData == [nil |-> TRUE]
View(h, p) ==
    IF p = 0 THEN NoData
    ELSE IF h[p].type = "GPUMetrics"
    THEN [nil |-> FALSE, at |-> p, Timestamp |-> h[p].Timestamp,
          GPUs |-> IF h[p].GPUs.nil THEN NilSlice
                   ELSE [nil |-> FALSE, items |-> h[h[p].GPUs.ref].items]]
    ELSE [nil |-> FALSE, at |-> p, Stats |-> h[p]]

\* ------------------------------------------------------------------ locals

\* gpus .. kvDtype are the locals of the code.  The rest is history of the
\* cycle: entry, what the cache showed when the poll began; failed, the
\* upstream calls that failed; exit, the return statement fetch left by;
\* hit, whether getShow answered from showCache; showFailed, the positions in
\* ps.Models of the models whose /api/show call failed.
NoLocals ==
    [gpus |-> NilRef, procs |-> NilSlice, procMap |-> EmptyMap, i |-> 0,
     result |-> 0, ps |-> <<>>, kvDtype |-> "",
     entry |-> NoData, failed |-> {}, exit |-> "", hit |-> FALSE, showFailed |-> {}]

NoPoll == [outcome |-> "none", exit |-> "", failed |-> {}]

Roots(lt, lc, rl) ==
    {lt} \cup {lc[t].result : t \in Threads} \cup {lc[t].gpus.ref : t \in Threads}
         \cup {rl[r] : r \in Readers}

\* Where a goroutine goes when its poll() returns.
Continuation(t) == IF t = "start" THEN "spawn" ELSE "select"

\* The first step of poll().
PollEntry == IF sampler = "gpu" THEN "queryGPUs" ELSE "fetch"

PollPCs ==
    {"queryGPUs", "queryProcs", "group", "attach", "fetch", "liveness", "version",
     "tags", "ps", "model", "show", "lock", "lockWait", "store", "unlock"}

InPoll(t) == pc[t] \in PollPCs

NoResp == [status |-> 0, body |-> NoData, seen |-> NoData]

\* The state after NewGPUMonitor() (s = "gpu") or NewOllamaMonitor(), before
\* Start(), in a process with environment env, unreliable endpoint f, the
\* outside world w and the given handler goroutines.
Boot(s, f, env, w, readers) ==
    /\ sampler = s
    /\ faulty = f
    /\ clock = 1
    /\ tickC = FALSE
    /\ stopCh = FALSE
    /\ muW = [st |-> "free", by |-> "none"]
    /\ muR = 0
    /\ latest = 0
    /\ heap = EmptyHeap
    /\ pc = [t \in Threads |-> IF t = "start" THEN "init" ELSE "unborn"]
    /\ loc = [t \in Threads |-> NoLocals]
    /\ rpc = [r \in readers |-> "idle"]
    /\ rloc = [r \in readers |-> 0]
    /\ resp = [r \in readers |-> NoResp]
    /\ showCache = EmptyCache
    /\ wire = ""
    /\ kvEnv = env
    /\ world = w
    /\ lastDone = NoData
    /\ lastPoll = NoPoll

Init ==
    \/ Boot("gpu", "none", "", DefaultWorld, OneReader)
    \/ \E f \in Endpoints, env \in {"", "q8_0"} :
          Boot("ollama", f, env, DefaultWorld, OneReader)

\* ------------------------------------------------- Start, the loop and Stop

\* poll() is entered by goroutine t: its locals are fresh.  entry is history:
\* what the cache showed when this poll began.
EnterPoll(t) ==
    /\ pc' = [pc EXCEPT ![t] = PollEntry]
    /\ loc' = [loc EXCEPT ![t] = [NoLocals EXCEPT !.entry = View(heap, latest)]]

\* A Start() that launched the goroutine before its first poll: C4 rejects it.
StartCallSpawnsFirst ==
    /\ pc["start"] = "init"
    /\ pc' = [pc EXCEPT !["start"] = PollEntry, !["loop"] = "newTicker"]
    /\ loc' = [loc EXCEPT !["start"] = [NoLocals EXCEPT !.entry = View(heap, latest)]]
    /\ UNCHANGED <<sampler, faulty, clock, tickC, stopCh, muW, muR, latest, heap,
                   rpc, rloc, resp, showCache, wire, kvEnv, world, lastDone, lastPoll>>

\* Start(): the first poll runs in the caller, before the goroutine exists.
StartCall ==
    /\ pc["start"] = "init"
    /\ EnterPoll("start")
    /\ UNCHANGED <<sampler, faulty, clock, tickC, stopCh, muW, muR, latest, heap,
                   rpc, rloc, resp, showCache, wire, kvEnv, world, lastDone, lastPoll>>

\* Start(), after the first poll returned: go func() { ... }() and return.
Spawn ==
    /\ pc["start"] = "spawn"
    /\ pc' = [pc EXCEPT !["start"] = "returned", !["loop"] = "newTicker"]
    /\ UNCHANGED <<sampler, faulty, clock, tickC, stopCh, muW, muR, latest, heap, loc,
                   rpc, rloc, resp, showCache, wire, kvEnv, world, lastDone, lastPoll>>

\* The goroutine's ticker := time.NewTicker(period).
NewTicker ==
    /\ pc["loop"] = "newTicker"
    /\ pc' = [pc EXCEPT !["loop"] = "select"]
    /\ UNCHANGED <<sampler, faulty, clock, tickC, stopCh, muW, muR, latest, heap, loc,
                   rpc, rloc, resp, showCache, wire, kvEnv, world, lastDone, lastPoll>>

TickerRunning == pc["loop"] \notin {"unborn", "newTicker", "exited"}

\* One ticker period passes: the running ticker puts a tick in its channel.
\* The channel holds one tick; a tick that finds it full is dropped.
Tick ==
    /\ TickerRunning
    /\ clock < MaxClock
    /\ clock' = clock + 1
    /\ tickC' = TRUE
    /\ UNCHANGED <<sampler, faulty, stopCh, muW, muR, latest, heap, pc, loc,
                   rpc, rloc, resp, showCache, wire, kvEnv, world, lastDone, lastPoll>>

\* select: case <-ticker.C: m.poll().  Go picks among the ready cases at
\* random, so this case needs only a tick in the channel.
SelectTick ==
    /\ pc["loop"] = "select"
    /\ tickC
    /\ tickC' = FALSE
    /\ EnterPoll("loop")
    /\ UNCHANGED <<sampler, faulty, clock, stopCh, muW, muR, latest, heap,
                   rpc, rloc, resp, showCache, wire, kvEnv, world, lastDone, lastPoll>>

\* select: case <-m.stopCh: return (the deferred ticker.Stop() runs).
SelectStop ==
    /\ pc["loop"] = "select"
    /\ stopCh
    /\ pc' = [pc EXCEPT !["loop"] = "exited"]
    /\ UNCHANGED <<sampler, faulty, clock, tickC, stopCh, muW, muR, latest, heap, loc,
                   rpc, rloc, resp, showCache, wire, kvEnv, world, lastDone, lastPoll>>

\* Stop(): close(m.stopCh).  main defers it after Start() returned.
Stop ==
    /\ pc["start"] = "returned"
    /\ ~stopCh
    /\ stopCh' = TRUE
    /\ UNCHANGED <<sampler, faulty, clock, tickC, muW, muR, latest, heap, pc, loc,
                   rpc, rloc, resp, showCache, wire, kvEnv, world, lastDone, lastPoll>>

\* ------------------------------------------------ GPUMonitor.poll and fetch

\* A poll() that cleared the cache when it aborted: C1 rejects it.
PollAbortsStoresNil(t, cmd) ==
    /\ pc' = [pc EXCEPT ![t] = Continuation(t)]
    /\ loc' = [loc EXCEPT ![t] = NoLocals]
    /\ latest' = 0
    /\ heap' = Collect(heap, Roots(latest', loc', rloc))
    /\ lastPoll' = [outcome |-> "aborted", exit |-> cmd, failed |-> {cmd}]

\* poll() returns without touching the cache ("nvidia-smi error:").
PollAborts(t, cmd) ==
    /\ pc' = [pc EXCEPT ![t] = Continuation(t)]
    /\ loc' = [loc EXCEPT ![t] = NoLocals]
    /\ latest' = latest
    /\ heap' = Collect(heap, Roots(latest', loc', rloc))
    /\ lastPoll' = [outcome |-> "aborted", exit |-> cmd, failed |-> {cmd}]

\* gpus, err := queryGPUs()
QueryGPUs(t) ==
    /\ sampler = "gpu"
    /\ pc[t] = "queryGPUs"
    /\ \E r \in CmdResults(world.gpuOut) :
        IF r.err THEN PollAborts(t, "query-gpu")
        ELSE LET g == queryGPUs(r.out) IN
             /\ UNCHANGED <<latest, lastPoll>>
             /\ pc' = [pc EXCEPT ![t] = "queryProcs"]
             /\ loc' = [loc EXCEPT ![t].gpus =
                            IF g.nil THEN NilRef ELSE RefTo(NewAddr(heap))]
             /\ heap' = IF g.nil THEN heap
                        ELSE Alloc(heap, [type |-> "array", items |-> g.items])
    /\ UNCHANGED <<sampler, faulty, clock, tickC, stopCh, muW, muR,
                   rpc, rloc, resp, showCache, wire, kvEnv, world, lastDone>>

\* procs, err := queryProcesses()
QueryProcs(t) ==
    /\ sampler = "gpu"
    /\ pc[t] = "queryProcs"
    /\ \E r \in CmdResults(world.procOut) :
        IF r.err THEN PollAborts(t, "query-compute-apps")
        ELSE /\ UNCHANGED <<latest, lastPoll>>
             /\ pc' = [pc EXCEPT ![t] = "group"]
             /\ loc' = [loc EXCEPT ![t].procs = queryProcesses(r.out)]
             /\ heap' = heap
    /\ UNCHANGED <<sampler, faulty, clock, tickC, stopCh, muW, muR,
                   rpc, rloc, resp, showCache, wire, kvEnv, world, lastDone>>

\* for _, p := range procs { procMap[p.uuid] = append(procMap[p.uuid], p.proc) }
Group(t) ==
    /\ sampler = "gpu"
    /\ pc[t] = "group"
    /\ pc' = [pc EXCEPT ![t] = "attach"]
    /\ loc' = [loc EXCEPT ![t].procMap = GroupProcs(loc[t].procs.items, EmptyMap),
                          ![t].i = 1]
    /\ UNCHANGED <<sampler, faulty, clock, tickC, stopCh, muW, muR, latest, heap,
                   rpc, rloc, resp, showCache, wire, kvEnv, world, lastDone, lastPoll>>

\* len(gpus)
GpusLen(t) == IF loc[t].gpus.nil THEN 0 ELSE Len(heap[loc[t].gpus.ref].items)

\* One turn of for i := range gpus: gpus[i].Processes is written in place.
Attach(t) ==
    /\ sampler = "gpu"
    /\ pc[t] = "attach"
    /\ loc[t].i <= GpusLen(t)
    /\ LET a == loc[t].gpus.ref
           i == loc[t].i
       IN  heap' = [heap EXCEPT ![a].items[i].Processes =
                        AttachedProcesses(loc[t].procMap, heap[a].items[i])]
    /\ loc' = [loc EXCEPT ![t].i = loc[t].i + 1]
    /\ UNCHANGED <<sampler, faulty, clock, tickC, stopCh, muW, muR, latest, pc,
                   rpc, rloc, resp, showCache, wire, kvEnv, world, lastDone, lastPoll>>

\* return &GPUMetrics{Timestamp: now, GPUs: gpus}, nil; poll goes on to m.mu.Lock().
Construct(t) ==
    /\ sampler = "gpu"
    /\ pc[t] = "attach"
    /\ loc[t].i > GpusLen(t)
    /\ pc' = [pc EXCEPT ![t] = "lock"]
    /\ loc' = [loc EXCEPT ![t] = [NoLocals EXCEPT !.result = NewAddr(heap),
                                                  !.entry = loc[t].entry]]
    /\ heap' = Alloc(heap, [type |-> "GPUMetrics", Timestamp |-> Now(clock),
                            GPUs |-> loc[t].gpus])
    /\ UNCHANGED <<sampler, faulty, clock, tickC, stopCh, muW, muR, latest,
                   rpc, rloc, resp, showCache, wire, kvEnv, world, lastDone, lastPoll>>

\* ------------------------------------------- OllamaMonitor.fetch and getShow

\* A stats object whose model list starts nil: C6 rejects it.
NewStatsNilModels(now) ==
    [type |-> "OllamaStats", Timestamp |-> now, Running |-> FALSE, Version |-> "",
     RunningModels |-> NilSlice, AvailableModelsCount |-> "0",
     TotalDiskUsageBytes |-> "0"]

\* stats := &OllamaStats{Timestamp: now, RunningModels: []RunningModel{}}
NewStats(now) ==
    [type |-> "OllamaStats", Timestamp |-> now, Running |-> FALSE, Version |-> "",
     RunningModels |-> EmptySlice, AvailableModelsCount |-> "0",
     TotalDiskUsageBytes |-> "0"]

\* A fetch that published the stats object before filling it: C3 rejects it.
FetchBeginPublishes(t) ==
    /\ sampler = "ollama"
    /\ pc[t] = "fetch"
    /\ pc' = [pc EXCEPT ![t] = "liveness"]
    /\ loc' = [loc EXCEPT ![t].result = NewAddr(heap)]
    /\ latest' = NewAddr(heap)
    /\ heap' = Collect(Alloc(heap, NewStats(Now(clock))), Roots(latest', loc', rloc))
    /\ UNCHANGED <<sampler, faulty, clock, tickC, stopCh, muW, muR,
                   rpc, rloc, resp, showCache, wire, kvEnv, world, lastDone, lastPoll>>

\* fetch begins: the stats object exists from the first statement on.
FetchBegin(t) ==
    /\ sampler = "ollama"
    /\ pc[t] = "fetch"
    /\ pc' = [pc EXCEPT ![t] = "liveness"]
    /\ loc' = [loc EXCEPT ![t].result = NewAddr(heap)]
    /\ heap' = Alloc(heap, NewStats(Now(clock)))
    /\ UNCHANGED <<sampler, faulty, clock, tickC, stopCh, muW, muR, latest,
                   rpc, rloc, resp, showCache, wire, kvEnv, world, lastDone, lastPoll>>

\* Where fetch goes after the liveness probe GET / answered or failed:
\* "lock" stands for "return stats" (poll stores what fetch returns).
AfterLiveness(ok) == IF ok THEN "version" ELSE "lock"

\* resp, err := m.client.Get(m.host + "/")
Liveness(t) ==
    /\ sampler = "ollama"
    /\ pc[t] = "liveness"
    /\ \E ok \in LivenessResults(faulty) :
        /\ pc' = [pc EXCEPT ![t] = AfterLiveness(ok)]
        /\ heap' = IF ok THEN [heap EXCEPT ![loc[t].result].Running = TRUE] ELSE heap
        /\ loc' = IF ok THEN loc
                  ELSE [loc EXCEPT ![t].failed = @ \cup {"/"}, ![t].exit = "liveness"]
    /\ UNCHANGED <<sampler, faulty, clock, tickC, stopCh, muW, muR, latest,
                   rpc, rloc, resp, showCache, wire, kvEnv, world, lastDone, lastPoll>>

\* A fetch that returned when /api/version failed: C7 (amended) rejects it.
AfterVersionReturns(r) == IF r.err THEN "lock" ELSE "tags"

\* Where fetch goes after GET /api/version, failed or not.
AfterVersion(r) == "tags"

\* if err := m.getJSON("/api/version", &ver); err == nil { stats.Version = ver.Version }
Version(t) ==
    /\ sampler = "ollama"
    /\ pc[t] = "version"
    /\ \E r \in VersionResults(faulty) :
        /\ pc' = [pc EXCEPT ![t] = AfterVersion(r)]
        /\ heap' = IF r.err THEN heap
                   ELSE [heap EXCEPT ![loc[t].result].Version = r.v.Version]
        /\ loc' = IF r.err THEN [loc EXCEPT ![t].failed = @ \cup {"/api/version"}]
                  ELSE loc
    /\ UNCHANGED <<sampler, faulty, clock, tickC, stopCh, muW, muR, latest,
                   rpc, rloc, resp, showCache, wire, kvEnv, world, lastDone, lastPoll>>

\* Where fetch goes after GET /api/tags.
AfterTags(r) == "ps"

\* if err := m.getJSON("/api/tags", &tags); err == nil { count and sum }
Tags(t) ==
    /\ sampler = "ollama"
    /\ pc[t] = "tags"
    /\ \E r \in TagsResults(faulty, world.tags) :
        /\ pc' = [pc EXCEPT ![t] = AfterTags(r)]
        /\ heap' = IF r.err THEN heap
                   ELSE [heap EXCEPT
                            ![loc[t].result].AvailableModelsCount = GoInt(Len(r.v.Models)),
                            ![loc[t].result].TotalDiskUsageBytes =
                                SumSizes(r.v.Models, @)]
        /\ loc' = IF r.err THEN [loc EXCEPT ![t].failed = @ \cup {"/api/tags"}]
                  ELSE loc
    /\ UNCHANGED <<sampler, faulty, clock, tickC, stopCh, muW, muR, latest,
                   rpc, rloc, resp, showCache, wire, kvEnv, world, lastDone, lastPoll>>

\* Where fetch goes after GET /api/ps: an error returns stats as it is.
AfterPs(r) == IF r.err THEN "lock" ELSE "model"

\* kvDtype := os.Getenv("OLLAMA_KV_CACHE_TYPE"), "f16" when empty
KvDtypeOf(env) == IF env = "" THEN "f16" ELSE env

\* if err := m.getJSON("/api/ps", &ps); err != nil { return stats }; kvDtype
Ps(t) ==
    /\ sampler = "ollama"
    /\ pc[t] = "ps"
    /\ \E r \in PsResults(faulty, world.ps) :
        /\ pc' = [pc EXCEPT ![t] = AfterPs(r)]
        /\ loc' = IF r.err
                  THEN [loc EXCEPT ![t].failed = @ \cup {"/api/ps"}, ![t].exit = "ps"]
                  ELSE [loc EXCEPT ![t].ps = r.v.Models, ![t].i = 1,
                                   ![t].kvDtype = KvDtypeOf(kvEnv)]
    /\ UNCHANGED <<sampler, faulty, clock, tickC, stopCh, muW, muR, latest, heap,
                   rpc, rloc, resp, showCache, wire, kvEnv, world, lastDone, lastPoll>>

\* A getShow that never answered from showCache: C8 rejects it.
CacheNeverHit(cache, name) == FALSE

\* getShow: if cached, ok := m.showCache[name]; ok
CacheHit(cache, name) == name \in DOMAIN cache

\* getShow: what the cache is after the POST answered r: only a decoded body
\* is stored (m.showCache[name] = &show).
CacheAfterShow(cache, name, r) ==
    IF r.kind \in {"connErr", "badBody"} THEN cache
    ELSE [n \in DOMAIN cache \cup {name} |-> IF n = name THEN r.v ELSE cache[n]]

\* stats.RunningModels = append(stats.RunningModels, rm), and the next model.
\* kind is history: "hit" for an answer from showCache, else the outcome of
\* the POST.
AppendModel(t, show, kind) ==
    /\ heap' = [heap EXCEPT ![loc[t].result].RunningModels =
                    AppendSlice(@, RunningModelOf(loc[t].ps[loc[t].i], show,
                                                  loc[t].kvDtype))]
    /\ loc' = [loc EXCEPT
                  ![t].i = loc[t].i + 1,
                  ![t].hit = @ \/ kind = "hit",
                  ![t].failed = IF kind \in {"hit", "ok"} THEN @ ELSE @ \cup {"/api/show"},
                  ![t].showFailed = IF kind \in {"hit", "ok"} THEN @ ELSE @ \cup {loc[t].i}]

\* One turn of the range loop whose getShow is answered from showCache.
ModelCached(t) ==
    /\ sampler = "ollama"
    /\ pc[t] = "model"
    /\ loc[t].i <= Len(loc[t].ps)
    /\ CacheHit(showCache, loc[t].ps[loc[t].i].Name)
    /\ AppendModel(t, showCache[loc[t].ps[loc[t].i].Name], "hit")
    /\ UNCHANGED <<sampler, faulty, clock, tickC, stopCh, muW, muR, latest, pc,
                   rpc, rloc, resp, showCache, wire, kvEnv, world, lastDone, lastPoll>>

\* getShow on a cache miss: m.client.Post(m.host + "/api/show", ...) goes out.
ShowRequest(t) ==
    /\ sampler = "ollama"
    /\ pc[t] = "model"
    /\ loc[t].i <= Len(loc[t].ps)
    /\ ~CacheHit(showCache, loc[t].ps[loc[t].i].Name)
    /\ wire' = loc[t].ps[loc[t].i].Name
    /\ pc' = [pc EXCEPT ![t] = "show"]
    /\ UNCHANGED <<sampler, faulty, clock, tickC, stopCh, muW, muR, latest, heap, loc,
                   rpc, rloc, resp, showCache, kvEnv, world, lastDone, lastPoll>>

\* The POST answers; getShow returns; the turn of the range loop finishes.
ShowResponse(t) ==
    /\ sampler = "ollama"
    /\ pc[t] = "show"
    /\ \E r \in ShowResults(faulty, world.show[loc[t].ps[loc[t].i].Name]) :
        /\ showCache' = CacheAfterShow(showCache, loc[t].ps[loc[t].i].Name, r)
        /\ AppendModel(t, r.v, r.kind)
    /\ wire' = ""
    /\ pc' = [pc EXCEPT ![t] = "model"]
    /\ UNCHANGED <<sampler, faulty, clock, tickC, stopCh, muW, muR, latest,
                   rpc, rloc, resp, kvEnv, world, lastDone, lastPoll>>

\* The range loop is over: return stats.
FetchReturn(t) ==
    /\ sampler = "ollama"
    /\ pc[t] = "model"
    /\ loc[t].i > Len(loc[t].ps)
    /\ pc' = [pc EXCEPT ![t] = "lock"]
    /\ loc' = [loc EXCEPT ![t].exit = "loop"]
    /\ UNCHANGED <<sampler, faulty, clock, tickC, stopCh, muW, muR, latest, heap,
                   rpc, rloc, resp, showCache, wire, kvEnv, world, lastDone, lastPoll>>

\* ----------------------------------------------------- the cache: mu, latest

\* m.mu.Lock(), first half: the writer announces itself; new readers wait.
Lock(t) ==
    /\ pc[t] = "lock"
    /\ muW.st = "free"
    /\ muW' = [st |-> "pending", by |-> t]
    /\ pc' = [pc EXCEPT ![t] = "lockWait"]
    /\ UNCHANGED <<sampler, faulty, clock, tickC, stopCh, muR, latest, heap, loc,
                   rpc, rloc, resp, showCache, wire, kvEnv, world, lastDone, lastPoll>>

\* m.mu.Lock(), second half: the readers that held the lock have left.
LockAcquire(t) ==
    /\ pc[t] = "lockWait"
    /\ muW = [st |-> "pending", by |-> t]
    /\ muR = 0
    /\ muW' = [st |-> "held", by |-> t]
    /\ pc' = [pc EXCEPT ![t] = "store"]
    /\ UNCHANGED <<sampler, faulty, clock, tickC, stopCh, muR, latest, heap, loc,
                   rpc, rloc, resp, showCache, wire, kvEnv, world, lastDone, lastPoll>>

\* A store that kept the old snapshot when a call of the cycle had failed:
\* C19 rejects it.
StoreKeepsGood(t) ==
    /\ pc[t] = "store"
    /\ latest' = IF loc[t].failed = {} THEN loc[t].result ELSE latest
    /\ pc' = [pc EXCEPT ![t] = "unlock"]
    /\ heap' = Collect(heap, Roots(latest', loc, rloc))
    /\ UNCHANGED <<sampler, faulty, clock, tickC, stopCh, muW, muR, loc,
                   rpc, rloc, resp, showCache, wire, kvEnv, world, lastDone, lastPoll>>

\* m.latest = metrics (m.latest = stats)
Store(t) ==
    /\ pc[t] = "store"
    /\ latest' = loc[t].result
    /\ pc' = [pc EXCEPT ![t] = "unlock"]
    /\ heap' = Collect(heap, Roots(latest', loc, rloc))
    /\ UNCHANGED <<sampler, faulty, clock, tickC, stopCh, muW, muR, loc,
                   rpc, rloc, resp, showCache, wire, kvEnv, world, lastDone, lastPoll>>

\* m.mu.Unlock(); poll() returns.
Unlock(t) ==
    /\ pc[t] = "unlock"
    /\ muW' = [st |-> "free", by |-> "none"]
    /\ pc' = [pc EXCEPT ![t] = Continuation(t)]
    /\ lastDone' = View(heap, loc[t].result)
    /\ lastPoll' = [outcome |-> "stored", exit |-> loc[t].exit, failed |-> loc[t].failed]
    /\ loc' = [loc EXCEPT ![t] = NoLocals]
    /\ heap' = Collect(heap, Roots(latest, loc', rloc))
    /\ UNCHANGED <<sampler, faulty, clock, tickC, stopCh, muR, latest,
                   rpc, rloc, resp, showCache, wire, kvEnv, world>>

\* ------------------------------------------------- Latest and the handlers

\* A GET /api/gpus (GET /api/ollama/stats) arrives; main serves after Start().
Request(r) ==
    /\ rpc[r] = "idle"
    /\ pc["start"] = "returned"
    /\ rpc' = [rpc EXCEPT ![r] = "rlock"]
    /\ resp' = [resp EXCEPT ![r] = NoResp]
    /\ UNCHANGED <<sampler, faulty, clock, tickC, stopCh, muW, muR, latest, heap, pc, loc,
                   rloc, showCache, wire, kvEnv, world, lastDone, lastPoll>>

\* A read lock that only one reader could hold: C16 rejects it.
RLockExclusive(r) ==
    /\ rpc[r] = "rlock"
    /\ muW.st = "free"
    /\ muR = 0
    /\ muR' = muR + 1
    /\ rpc' = [rpc EXCEPT ![r] = "read"]
    /\ UNCHANGED <<sampler, faulty, clock, tickC, stopCh, muW, latest, heap, pc, loc,
                   rloc, resp, showCache, wire, kvEnv, world, lastDone, lastPoll>>

\* Latest(): m.mu.RLock() waits while a writer holds or awaits the lock.
RLock(r) ==
    /\ rpc[r] = "rlock"
    /\ muW.st = "free"
    /\ muR' = muR + 1
    /\ rpc' = [rpc EXCEPT ![r] = "read"]
    /\ UNCHANGED <<sampler, faulty, clock, tickC, stopCh, muW, latest, heap, pc, loc,
                   rloc, resp, showCache, wire, kvEnv, world, lastDone, lastPoll>>

\* Latest(): return m.latest (the value is read, the unlock is deferred).
\* seen is history: what the latest completed poll had stored at this moment.
Read(r) ==
    /\ rpc[r] = "read"
    /\ rloc' = [rloc EXCEPT ![r] = latest]
    /\ resp' = [resp EXCEPT ![r].seen = lastDone]
    /\ rpc' = [rpc EXCEPT ![r] = "runlock"]
    /\ UNCHANGED <<sampler, faulty, clock, tickC, stopCh, muW, muR, latest, heap, pc, loc,
                   showCache, wire, kvEnv, world, lastDone, lastPoll>>

\* Latest(): the deferred m.mu.RUnlock().
RUnlock(r) ==
    /\ rpc[r] = "runlock"
    /\ muR' = muR - 1
    /\ rpc' = [rpc EXCEPT ![r] = "respond"]
    /\ UNCHANGED <<sampler, faulty, clock, tickC, stopCh, muW, latest, heap, pc, loc,
                   rloc, resp, showCache, wire, kvEnv, world, lastDone, lastPoll>>

\* The handler's status: if metrics == nil { http.Error(w, "no data yet", 503) }
HandlerStatus(p) == IF p = 0 THEN StatusServiceUnavailable ELSE StatusOK

\* json.NewEncoder(w).Encode(v), the error dropped: the value is marshalled
\* in full before a byte is written, and a float64 that is an infinity or NaN
\* makes that fail, so the answer then carries no snapshot.  (The floats of
\* OllamaStats are quotients of integers, always finite.)
Encode(v) ==
    IF /\ ~v.nil
       /\ "GPUs" \in DOMAIN v
       /\ \E i \in 1..Len(v.GPUs.items) :
             \/ v.GPUs.items[i].PowerDrawW.k # "fin"
             \/ v.GPUs.items[i].PowerLimitW.k # "fin"
    THEN NoData
    ELSE v

\* The handler answers: 503, or 200 with the snapshot encoded.
Respond(r) ==
    /\ rpc[r] = "respond"
    /\ resp' = [resp EXCEPT ![r].status = HandlerStatus(rloc[r]),
                            ![r].body = Encode(View(heap, rloc[r]))]
    /\ rloc' = [rloc EXCEPT ![r] = 0]
    /\ rpc' = [rpc EXCEPT ![r] = "idle"]
    /\ heap' = Collect(heap, Roots(latest, loc, rloc'))
    /\ UNCHANGED <<sampler, faulty, clock, tickC, stopCh, muW, muR, latest, pc, loc,
                   showCache, wire, kvEnv, world, lastDone, lastPoll>>

Next ==
    \/ StartCall \/ Spawn \/ NewTicker \/ Tick \/ SelectTick \/ SelectStop \/ Stop
    \/ \E t \in Threads :
          \/ QueryGPUs(t) \/ QueryProcs(t) \/ Group(t) \/ Attach(t) \/ Construct(t)
          \/ FetchBegin(t) \/ Liveness(t) \/ Version(t) \/ Tags(t) \/ Ps(t)
          \/ ModelCached(t) \/ ShowRequest(t) \/ ShowResponse(t) \/ FetchReturn(t)
          \/ Lock(t) \/ LockAcquire(t) \/ Store(t) \/ Unlock(t)
    \/ \E r \in Readers :
          \/ Request(r) \/ RLock(r) \/ Read(r) \/ RUnlock(r) \/ Respond(r)

Spec == Init /\ [][Next]_vars

\* ------------------------------------------- one cycle over a model's shape

\* NewOllamaMonitor() against a daemon with one loaded model of some shape.
ShapeInit ==
    \E f \in {"none", "/api/show"}, env \in {"", "q4_0", "q8_0"}, w \in ShapeWorlds :
        Boot("ollama", f, env, w, OneReader)

\* Start()'s first poll, up to its return.
FirstCycle ==
    \/ StartCall
    \/ FetchBegin("start") \/ Liveness("start") \/ Version("start") \/ Tags("start")
    \/ Ps("start") \/ ShowRequest("start") \/ ShowResponse("start")
    \/ FetchReturn("start")
    \/ Lock("start") \/ LockAcquire("start") \/ Store("start") \/ Unlock("start")

ShapeSpec == ShapeInit /\ [][FirstCycle]_vars

\* ------------------------------------------ one cycle over nvidia-smi rows

\* NewGPUMonitor() on a host with some device lines and some process lines.
RowsInit == \E w \in RowsWorlds : Boot("gpu", "none", "", w, OneReader)

\* Start()'s first poll, its return, and GET /api/gpus requests after it.
FirstPoll ==
    \/ StartCall \/ Spawn
    \/ QueryGPUs("start") \/ QueryProcs("start") \/ Group("start")
    \/ Attach("start") \/ Construct("start")
    \/ Lock("start") \/ LockAcquire("start") \/ Store("start") \/ Unlock("start")
    \/ \E r \in Readers :
          \/ Request(r) \/ RLock(r) \/ Read(r) \/ RUnlock(r) \/ Respond(r)

RowsSpec == RowsInit /\ [][FirstPoll]_vars

\* ------------------------------------------------ two requests at a time

TwoReaders == {"r1", "r2"}

\* A host with one device and one process, a daemon with one loaded model.
SmallWorld ==
    [gpuOut  |-> {<<DevA>>},
     procOut |-> {<<ProcA>>},
     tags    |-> <<TagLlama>>,
     ps      |-> <<PsLlama>>,
     show    |-> [n \in {"llama3:8b"} |-> ShowBody(n)],
     dims    |-> [n \in {"llama3:8b"} |-> LlamaDims],
     arch    |-> "amd64"]

\* Either monitor, with two handler goroutines.
ServingInit ==
    \/ Boot("gpu", "none", "", SmallWorld, TwoReaders)
    \/ Boot("ollama", "none", "", SmallWorld, TwoReaders)

\* Start(), the ticking loop and its polls, and the handlers; no Stop().
Serving ==
    \/ StartCall \/ Spawn \/ NewTicker \/ Tick \/ SelectTick
    \/ \E t \in Threads :
          \/ QueryGPUs(t) \/ QueryProcs(t) \/ Group(t) \/ Attach(t) \/ Construct(t)
          \/ FetchBegin(t) \/ Liveness(t) \/ Version(t) \/ Tags(t) \/ Ps(t)
          \/ ModelCached(t) \/ ShowRequest(t) \/ ShowResponse(t) \/ FetchReturn(t)
          \/ Lock(t) \/ LockAcquire(t) \/ Store(t) \/ Unlock(t)
    \/ \E r \in Readers :
          \/ Request(r) \/ RLock(r) \/ Read(r) \/ RUnlock(r) \/ Respond(r)

ServingSpec == ServingInit /\ [][Serving]_vars

\* ------------------------------------------------------------- properties

\* The part of poll() that is fetch (the snapshot is being built).
FetchPCs ==
    {"queryGPUs", "queryProcs", "group", "attach", "fetch", "liveness", "version",
     "tags", "ps", "model", "show"}

\* The part of poll() after fetch returned a snapshot.
StorePCs == {"lock", "lockWait", "store", "unlock"}

\* C1: a GPUMonitor poll whose device-list or process query fails leaves the
\* cache exactly as it was when that poll began (same pointer, same content),
\* which is what the last successful poll stored.
C1_FailedPollKeepsCache ==
    [][\A t \in Threads :
          (sampler = "gpu" /\ pc[t] \in {"queryGPUs", "queryProcs"}
                           /\ pc'[t] = Continuation(t))
          => /\ latest' = latest
             /\ View(heap', latest') = loc[t].entry
             /\ View(heap', latest') = lastDone']_vars

\* C1 happens: a poll failed while the cache held an earlier snapshot.
C1_Witness ==
    sampler = "gpu" /\ lastPoll.outcome = "aborted" /\ latest # 0 /\ ~InPoll("loop")

\* C2: whenever a reader can take the lock, the cache shows what the latest
\* completed successful poll stored (nothing while there was none); Latest()
\* returns exactly that, and the handler answers 503 with no data when it is
\* nothing and 200 with that snapshot otherwise.
C2_LatestIsLastSuccess ==
    sampler = "gpu" =>
        /\ muW.st # "held" => View(heap, latest) = lastDone
        /\ \A r \in Readers :
            /\ rpc[r] \in {"runlock", "respond"} => View(heap, rloc[r]) = resp[r].seen
            /\ resp[r].status # 0 =>
                IF resp[r].seen.nil
                THEN resp[r].status = StatusServiceUnavailable /\ resp[r].body = NoData
                ELSE resp[r].status = StatusOK /\ resp[r].body = resp[r].seen

\* The pointers a reader can get or has got from Latest().
Visible == ({latest} \cup {rloc[r] : r \in Readers}) \ {0}

\* Some poll is still building the snapshot at p (or its device array).
Building(p) ==
    \E t \in Threads :
        /\ pc[t] \in FetchPCs
        /\ \/ loc[t].result = p
           \/ /\ heap[p].type = "GPUMetrics"
              /\ ~heap[p].GPUs.nil
              /\ loc[t].gpus = heap[p].GPUs

\* The snapshot at p has its timestamp and every list attached.
Built(p) ==
    /\ heap[p].Timestamp # ""
    /\ IF heap[p].type = "GPUMetrics"
       THEN heap[p].GPUs.nil \/
            \A i \in 1..Len(heap[heap[p].GPUs.ref].items) :
                ~heap[heap[p].GPUs.ref].items[i].Processes.nil
       ELSE ~heap[p].RunningModels.nil

\* C3: for both samplers, what Latest() returns is nil or a snapshot that was
\* completely built before it was stored: no poll is still building it, and
\* nothing changes it for as long as a reader or the cache holds it.
C3_NoTornSnapshot ==
    /\ [](\A p \in Visible : p \in DOMAIN heap /\ Built(p) /\ ~Building(p))
    /\ [][\A p \in Visible : p \in Visible' => View(heap', p) = View(heap, p)]_vars

\* C3 happens: a handler holds a snapshot while a poll builds the next one.
C3_Witness ==
    \E r \in Readers :
        /\ rpc[r] = "respond"
        /\ rloc[r] # 0
        /\ \E t \in Threads : pc[t] \in {"attach", "model", "show"}

\* C4: at most one execution of poll() is in progress at any time.
C4_OnePollAtATime == Cardinality({t \in Threads : InPoll(t)}) <= 1

\* C4 happens: a tick arrives while the loop's poll is still running.
C4_Witness == InPoll("loop") /\ tickC

\* C5: once the stop signal is raised, no poll() starts.
C5_NoPollAfterStop ==
    [][stopCh => \A t \in Threads : InPoll(t)' => InPoll(t)]_vars

\* C6: a cycle whose liveness probe fails is not aborted: it stores a new
\* snapshot with running=false, an empty non-nil model list, an empty
\* version, and zero model count and disk usage.
C6_LivenessFailureStored ==
    sampler = "ollama" =>
        /\ lastPoll.outcome # "aborted"
        /\ \A t \in Threads :
              "/" \in loc[t].failed =>
                 /\ pc[t] \in StorePCs
                 /\ heap[loc[t].result] = NewStats(heap[loc[t].result].Timestamp)
                 /\ pc[t] = "unlock" =>
                        latest = loc[t].result /\ View(heap, latest) # loc[t].entry
        /\ ("/" \in lastPoll.failed /\ muW.st # "held") =>
              /\ latest # 0
              /\ heap[latest].Running = FALSE
              /\ heap[latest].RunningModels = EmptySlice
              /\ heap[latest].Version = ""
              /\ heap[latest].AvailableModelsCount = "0"
              /\ heap[latest].TotalDiskUsageBytes = "0"
              /\ heap[latest].Timestamp # ""

\* C6 happens: the loop's cycle failed at the liveness probe and was stored.
C6_Witness ==
    /\ sampler = "ollama"
    /\ "/" \in lastPoll.failed
    /\ muW.st = "free"
    /\ clock > 1
    /\ pc["loop"] = "select"

\* C7 as stated: a cycle returns before the per-model step only when the
\* liveness probe failed.
C7_OnlyLivenessEndsEarly ==
    \A t \in Threads :
        (sampler = "ollama" /\ pc[t] \in StorePCs /\ loc[t].exit # "loop")
            => "/" \in loc[t].failed

\* C7 amended: a cycle returns before the per-model step exactly when the
\* liveness probe or the loaded-models request (/api/ps) failed; a failure of
\* the version, catalog or introspection call does not end it early.
C7_LivenessOrPsEndsEarly ==
    \A t \in Threads :
        (sampler = "ollama" /\ pc[t] \in StorePCs)
            => (loc[t].exit # "loop" <=> loc[t].failed \cap {"/", "/api/ps"} # {})

\* C7 happens: a cycle returned early because /api/ps failed.
C7_Witness ==
    \E t \in Threads :
        pc[t] = "store" /\ loc[t].exit = "ps" /\ loc[t].failed = {"/api/ps"}

\* C8: once a /api/show answer is memoized for a name, no introspection
\* request for that name goes out again and the entry never changes.
C8_MemoizedOnce ==
    [][\A n \in DOMAIN showCache :
          /\ n \in DOMAIN showCache'
          /\ showCache'[n] = showCache[n]
          /\ wire' # n]_vars

\* C8 happens: a later cycle answered getShow from the cache.
C8_Witness == \E t \in Threads : loc[t].hit /\ pc[t] = "store"

\* C9: a failed metadata fetch (transport error, undecodable body, or an
\* error answer without architecture data) is never stored in showCache.
C9_NoNegativeCaching ==
    \A t \in Threads :
        \A i \in loc[t].showFailed : loc[t].ps[i].Name \notin DOMAIN showCache

\* The derived fields of a RunningModel.
DerivedOf(rm) == [ContextWindow |-> rm.ContextWindow, KVCache |-> rm.KVCache,
                  VRAM |-> rm.VRAM]

\* The reported fields of a RunningModel.
ReportedOf(rm) ==
    [Name |-> rm.Name, SizeVRAMBytes |-> rm.SizeVRAMBytes,
     ParameterSize |-> rm.ParameterSize, Quantization |-> rm.Quantization,
     Family |-> rm.Family, ExpiresAt |-> rm.ExpiresAt]

\* C10: in a cycle over the loaded models, a model whose metadata fetch
\* failed is in the snapshot with its reported fields and zero derived
\* fields; the other models keep the derived fields of their own metadata,
\* and the number and order of models are those of the /api/ps list.
C10_FailureIsolated ==
    \A t \in Threads :
        (sampler = "ollama" /\ pc[t] \in StorePCs /\ loc[t].exit = "loop") =>
            LET rms == heap[loc[t].result].RunningModels.items
                ps  == loc[t].ps
            IN  /\ Len(rms) = Len(ps)
                /\ \A i \in 1..Len(rms) :
                    /\ ReportedOf(rms[i]) = ReportedFields(ps[i])
                    /\ i \in loc[t].showFailed => DerivedOf(rms[i]) = ZeroDerived
                    /\ i \notin loc[t].showFailed =>
                          DerivedOf(rms[i]) =
                              DerivedFields(ps[i], showCache[ps[i].Name], loc[t].kvDtype)

\* Goroutine t has left fetch through the range loop and holds the snapshot
\* it is about to store (or has just stored).
CycleDone(t) == sampler = "ollama" /\ pc[t] \in StorePCs /\ loc[t].exit = "loop"

\* The loaded models of the snapshot goroutine t holds.
ModelsOf(t) == heap[loc[t].result].RunningModels.items

\* The daemon's shape of the i-th loaded model of t's cycle.
ShapeAt(t, i) == world.dims[loc[t].ps[i].Name]

\* The daemon sent x as a number greater than zero.
Pos(x) == x.t = "num" /\ ~x.v.neg /\ x.v.mant > 0

\* The daemon sent x as a count: a whole number, one at least.
Count(x) == Pos(x) /\ x.v.exp >= 0

\* The whole part of the number x the daemon sent, as an integer of any size.
WholeOf(x) ==
    IF x.v.exp >= 0 THEN Signed(x.v.neg, DigitsOf(x.v.mant) \o Zeros(x.v.exp))
    ELSE Signed(x.v.neg, DivMod(DigitsOf(x.v.mant), "1" \o Zeros(0 - x.v.exp), "", "").q)

\* The i-th model's metadata reached fetch and its four counts are positive.
AllPositive(t, i) ==
    /\ i \notin loc[t].showFailed
    /\ Pos(ShapeAt(t, i).layers) /\ Pos(ShapeAt(t, i).kvHeads)
    /\ Pos(ShapeAt(t, i).heads) /\ Pos(ShapeAt(t, i).emb)

\* The i-th model's metadata reached fetch and its four counts are whole
\* and positive.
Sized(t, i) ==
    /\ i \notin loc[t].showFailed
    /\ Count(ShapeAt(t, i).layers) /\ Count(ShapeAt(t, i).kvHeads)
    /\ Count(ShapeAt(t, i).heads) /\ Count(ShapeAt(t, i).emb)

\* Sixteen times the bytes per element of the configured cache type:
\* 0.5625 for q4_0, 1.0625 for q8_0, 2.0 otherwise.
Elem16 == IF kvEnv = "q4_0" THEN "9" ELSE IF kvEnv = "q8_0" THEN "17" ELSE "32"

\* 2 x layers x kv-heads x head-dimension x bytes-per-element for shape d,
\* with head-dimension = embedding div heads, as a number of any size, the
\* fraction of a byte dropped.
Cost(d) ==
    Quo(Times(Times(Times(Times("2", WholeOf(d.layers)), WholeOf(d.kvHeads)),
                    Quo(WholeOf(d.emb), WholeOf(d.heads))),
              Elem16),
        "16")

\* The worked example: 32 layers, 8 kv-heads, 32 heads, embedding 4096,
\* context 4096, f16, metadata obtained.
ExampleDone(t) ==
    CycleDone(t) /\ world = ExampleWorld /\ kvEnv = "" /\ loc[t].showFailed = {}

\* C11: for a model with four positive counts, bytes-per-token is
\* 2 x layers x kv-heads x (embedding div heads) x bytes-per-element and max
\* KV bytes is bytes-per-token x context window; the worked example gives
\* 131072 and 536870912.  Bytes-per-token is compared with the whole bytes
\* of the product, which is what the claim says of a whole number (the
\* product is not whole for every q4_0 and q8_0 shape); the products are
\* those of the numbers, whatever their size.
C11_KVFormula ==
    \A t \in Threads : CycleDone(t) =>
        /\ \A i \in 1..Len(ModelsOf(t)) : Sized(t, i) =>
              /\ ModelsOf(t)[i].KVCache.BytesPerToken = Cost(ShapeAt(t, i))
              /\ ModelsOf(t)[i].KVCache.MaxSizeBytes =
                    Times(ModelsOf(t)[i].KVCache.BytesPerToken, ModelsOf(t)[i].ContextWindow)
        /\ ExampleDone(t) =>
              /\ ModelsOf(t)[1].KVCache.BytesPerToken = "131072"
              /\ ModelsOf(t)[1].KVCache.MaxSizeBytes = "536870912"

\* What the loaded-models response says of a model, as the snapshot names it.
PsSays(model) ==
    [Name |-> model.Name, SizeVRAMBytes |-> model.SizeVRAM,
     ParameterSize |-> model.Details.ParameterSize,
     Quantization |-> model.Details.QuantizationLevel,
     Family |-> model.Details.Family, ExpiresAt |-> model.ExpiresAt]

\* C12: a loaded model for which any of the four counts is missing, zero or
\* negative has every KV-cache field and every VRAM-breakdown field at its
\* zero value, and its name, VRAM footprint, parameter size, quantization,
\* family and expiry are those of the loaded-models response.
C12_NoGuessWithoutShape ==
    \A t \in Threads : CycleDone(t) =>
        \A i \in 1..Len(ModelsOf(t)) : ~AllPositive(t, i) =>
            /\ ModelsOf(t)[i].KVCache.DType = ""
            /\ ModelsOf(t)[i].KVCache.BytesPerToken = "0"
            /\ ModelsOf(t)[i].KVCache.MaxSizeBytes = "0"
            /\ ModelsOf(t)[i].KVCache.MaxSizeMiB = [num |-> "0", den |-> 1]
            /\ ModelsOf(t)[i].VRAM.TotalBytes = "0"
            /\ ModelsOf(t)[i].VRAM.WeightsEstBytes = "0"
            /\ ModelsOf(t)[i].VRAM.KVCacheMaxBytes = "0"
            /\ ReportedOf(ModelsOf(t)[i]) = PsSays(world.ps[i])

\* C12 happens: the metadata arrived with three positive counts and a
\* kv-head count that is negative (-1, or -10^30, which int64 does not
\* hold), and the snapshot was stored.
C12_Witness ==
    \E t \in Threads :
        /\ CycleDone(t) /\ pc[t] = "unlock"
        /\ 1 \notin loc[t].showFailed
        /\ Pos(ShapeAt(t, 1).layers) /\ Pos(ShapeAt(t, 1).heads) /\ Pos(ShapeAt(t, 1).emb)
        /\ ShapeAt(t, 1).kvHeads \in {JNum(-1), JFloat(-1, 30)}
        /\ Less("0", ModelsOf(t)[1].ContextWindow)

\* The on-disk size the catalog (/api/tags) reports for the named model.
CatalogSize(name) ==
    LET k == CHOOSE j \in 1..Len(world.tags) : world.tags[j].Name = name
    IN  world.tags[k].Size

\* C13: when the derived fields of a model are computed, the weights
\* estimate is the reported VRAM footprint minus the max KV-cache bytes when
\* that is not negative, and the catalog's on-disk size of the model when
\* it is negative.
C13_WeightsFallbackIsCatalogSize ==
    \A t \in Threads : CycleDone(t) =>
        \A i \in 1..Len(ModelsOf(t)) : Sized(t, i) =>
            LET rm   == ModelsOf(t)[i]
                diff == Minus(world.ps[i].SizeVRAM, rm.KVCache.MaxSizeBytes)
            IN  rm.VRAM.WeightsEstBytes =
                    IF ~IsNeg(diff) THEN diff ELSE CatalogSize(rm.Name)

\* The num_ctx line of shape d's parameter block is absent or its token
\* writes a number (a sign and digits).
Written(d) ==
    LET tok    == d.numCtx.v
        signed == Len(tok) > 0 /\ SubSeq(tok, 1, 1) \in {"+", "-"}
        digits == IF signed THEN SubSeq(tok, 2, Len(tok)) ELSE tok
    IN  d.numCtx.t = "none" \/ (digits # "" /\ AllDigits(digits))

\* The num_ctx of shape d's parameter block, Written(d): the number its
\* token writes, of any size; 0 when there is no such line.
NumCtxOf(d) ==
    LET tok    == d.numCtx.v
        signed == Len(tok) > 0 /\ SubSeq(tok, 1, 1) \in {"+", "-"}
        digits == IF signed THEN SubSeq(tok, 2, Len(tok)) ELSE tok
    IN  IF d.numCtx.t = "none" THEN "0"
        ELSE Signed(SubSeq(tok, 1, 1) = "-", StripLeadingZeros(digits))

\* C14: a loaded model of a stored snapshot has as context window the
\* num_ctx of the parameter block when present and positive, else the
\* metadata's context length when present, else 2048.  This is the claim on
\* the models whose metadata was obtained and whose num_ctx, if any, is a
\* number: the context window is num_ctx when that is positive; if not, it
\* is the declared context length when that is a whole positive number, and
\* 2048 when none is declared.  The numbers are those the daemon wrote,
\* whatever their size.
C14_ContextWindowResolved ==
    \A t \in Threads : CycleDone(t) =>
        \A i \in 1..Len(ModelsOf(t)) :
            LET d  == ShapeAt(t, i)
                cw == ModelsOf(t)[i].ContextWindow
            IN  (i \notin loc[t].showFailed /\ Written(d)) =>
                    /\ Less("0", NumCtxOf(d)) => cw = NumCtxOf(d)
                    /\ (~Less("0", NumCtxOf(d)) /\ Count(d.ctx)) => cw = WholeOf(d.ctx)
                    /\ (~Less("0", NumCtxOf(d)) /\ d.ctx.t = "none") => cw = "2048"

\* The lines the device query and the process query print on this host
\* (a host of RowsWorlds prints one thing only).
TheDevRows == CHOOSE g \in world.gpuOut : TRUE
TheProcRows == CHOOSE o \in world.procOut : TRUE

\* The lines of rows that have the fields of the schema, in order.
Kept(rows) == LET IsKept(r) == r.keep IN SelectSeq(rows, IsKept)

\* The process records of the well-formed process lines whose device uuid is
\* u, in the order of the output.
RowsOfDevice(rows, u) ==
    LET Mine(r) == r.keep /\ r.info.uuid = u
        sel     == SelectSeq(rows, Mine)
    IN  [j \in 1..Len(sel) |-> sel[j].info.proc]

\* The devices of the snapshot at p.
DevicesAt(p) == View(heap, p).GPUs.items

\* C15: in every snapshot Latest() returns, every device has a process list
\* that is present, and empty when no process line names the device.
C15_ProcessListPresent ==
    sampler = "gpu" =>
        \A p \in Visible : \A i \in 1..Len(DevicesAt(p)) :
            /\ ~DevicesAt(p)[i].Processes.nil
            /\ RowsOfDevice(TheProcRows, DevicesAt(p)[i].UUID) = <<>>
                  => DevicesAt(p)[i].Processes = EmptySlice

\* C15 happens: a handler got from Latest() a snapshot with a device no
\* process line names, while the process query did print lines.
C15_Witness ==
    /\ sampler = "gpu"
    /\ \E r \in Readers :
          /\ rpc[r] = "respond" /\ rloc[r] # 0
          /\ \E i \in 1..Len(DevicesAt(rloc[r])) :
                DevicesAt(rloc[r])[i].Processes = EmptySlice
    /\ Kept(TheProcRows) # <<>>

\* C17: in a successful poll each device's process list is exactly the
\* process lines with the device's uuid, in output order; so a line whose
\* uuid no device has is in no list, and every entry of a list comes from a
\* line with that device's uuid.
C17_JoinByUUID ==
    sampler = "gpu" =>
        \A p \in Visible : \A i \in 1..Len(DevicesAt(p)) :
            LET dev == DevicesAt(p)[i] IN
            /\ dev.Processes.items = RowsOfDevice(TheProcRows, dev.UUID)
            /\ \A j \in 1..Len(dev.Processes.items) :
                  \E k \in 1..Len(TheProcRows) :
                      /\ TheProcRows[k].keep
                      /\ TheProcRows[k].info.proc = dev.Processes.items[j]
                      /\ TheProcRows[k].info.uuid = dev.UUID

\* C17 happens: of two devices one got two processes, the other none.
C17_Witness ==
    /\ sampler = "gpu" /\ latest # 0
    /\ Len(DevicesAt(latest)) = 2
    /\ \E i, j \in 1..2 :
          /\ Len(DevicesAt(latest)[i].Processes.items) = 2
          /\ DevicesAt(latest)[j].Processes = EmptySlice

\* The records the well-formed lines of rows stand for, in order.
InfoOfKept(rows) == [j \in 1..Len(Kept(rows)) |-> Kept(rows)[j].info]

\* Device records without their process lists.
Stripped(devs) == [j \in 1..Len(devs) |-> [devs[j] EXCEPT !.Processes = NilSlice]]

\* The device array goroutine t holds between the device query and the
\* construction of the snapshot.
GpusOf(t) == IF loc[t].gpus.nil THEN <<>> ELSE heap[loc[t].gpus.ref].items

\* C18: lines with too few fields are dropped and every well-formed line of
\* the same output is parsed, in order, not-applicable and unparsable
\* numbers as zero; such lines never abort the poll: a poll aborts only when
\* a command itself fails, and a poll that did not abort stored the devices
\* of the well-formed lines.
C18_RowTolerance ==
    sampler = "gpu" =>
        /\ \A t \in Threads :
              /\ pc[t] \in {"queryProcs", "group", "attach"}
                    => Stripped(GpusOf(t)) = InfoOfKept(TheDevRows)
              /\ pc[t] \in {"group", "attach"}
                    => loc[t].procs.items = InfoOfKept(TheProcRows)
        /\ \A p \in Visible : Stripped(DevicesAt(p)) = InfoOfKept(TheDevRows)
        /\ lastPoll.outcome = "aborted"
              => lastPoll.failed \subseteq {"query-gpu", "query-compute-apps"}
        /\ lastPoll.outcome = "stored" => latest # 0

\* The part of poll() from the moment m.mu.Lock() is called until
\* m.mu.Unlock() has returned.
LockPCs == {"lockWait", "store", "unlock"}

\* C16: for both samplers, poll has the write lock (held or asked for) only
\* around the slot assignment, never during fetch; so while no poll is
\* there, in particular while a poll runs its commands or HTTP calls, a
\* Latest() call can take the read lock at once, whether or not other
\* readers hold it, and goes on to return without any further wait.
C16_ReadsDoNotWaitForPoll ==
    /\ \A t \in Threads : (muW.st # "free" /\ muW.by = t) <=> pc[t] \in LockPCs
    /\ \A r \in Readers :
          /\ (rpc[r] = "rlock" /\ \A t \in Threads : pc[t] \notin LockPCs)
                => ENABLED RLock(r)
          /\ rpc[r] = "read" => ENABLED Read(r)
          /\ rpc[r] = "runlock" => ENABLED RUnlock(r)

\* C16 happens: a Latest() call is about to take the read lock while
\* another reader holds it and a poll is in its external queries.
C16_Witness ==
    \E r1, r2 \in Readers :
        /\ r1 # r2
        /\ rpc[r1] = "rlock" /\ rpc[r2] \in {"read", "runlock"}
        /\ \E t \in Threads : pc[t] \in {"queryProcs", "show", "ps"}

\* C19: OllamaMonitor.poll() replaces the cached snapshot on every cycle,
\* whatever failed; so once Start() has run its first poll Latest() is never
\* nil and GET /api/ollama/stats never answers 503.
C19_OllamaAlwaysHasData ==
    sampler = "ollama" =>
        /\ lastPoll.outcome # "aborted"
        /\ \A t \in Threads :
              pc[t] = "unlock" =>
                  latest = loc[t].result /\ View(heap, latest) # loc[t].entry
        /\ pc["start"] \in {"spawn", "returned"} => latest # 0
        /\ \A r \in Readers :
              /\ rpc[r] \in {"runlock", "respond"} => rloc[r] # 0
              /\ resp[r].status # StatusServiceUnavailable
              /\ resp[r].status # 0 => resp[r].status = StatusOK /\ ~resp[r].body.nil

\* C19 happens: a handler served a good snapshot, and a later cycle that
\* found the daemon down has replaced it in the cache.
C19_Witness ==
    /\ sampler = "ollama" /\ muW.st = "free" /\ latest # 0
    /\ \E r \in Readers : resp[r].status = StatusOK /\ resp[r].body.Stats.Running
    /\ ~heap[latest].Running
    /\ "/" \in lastPoll.failed

\* The loaded models of the snapshots that are stored or about to be.
StoredModels ==
    UNION ({ {ModelsOf(t)[i] : i \in 1..Len(ModelsOf(t))} :
               t \in {u \in Threads : sampler = "ollama" /\ pc[u] \in StorePCs} }
           \cup { {heap[p].RunningModels.items[i] :
                      i \in 1..Len(heap[p].RunningModels.items)} :
                   p \in {q \in {latest} : sampler = "ollama" /\ q # 0} })

\* C20: each loaded model of a stored snapshot has all KV-cache and VRAM
\* fields zero, or else: VRAM total is the reported footprint, VRAM KV max is
\* the KV-cache max size, that is bytes-per-token times the context window,
\* and weights plus KV max is the total unless the footprint was smaller
\* than the KV max (the fallback).
C20_BreakdownConsistent ==
    \A rm \in StoredModels :
        \/ rm.KVCache = ZeroKVCache /\ rm.VRAM = ZeroVRAM
        \/ /\ rm.VRAM.TotalBytes = rm.SizeVRAMBytes
           /\ rm.VRAM.KVCacheMaxBytes = rm.KVCache.MaxSizeBytes
           /\ rm.KVCache.MaxSizeBytes = Times(rm.KVCache.BytesPerToken, rm.ContextWindow)
           /\ ~Less(rm.VRAM.TotalBytes, rm.VRAM.KVCacheMaxBytes)
                 => Plus(rm.VRAM.WeightsEstBytes, rm.VRAM.KVCacheMaxBytes)
                        = rm.VRAM.TotalBytes

====
